---------------------------- MODULE Spec2Model ----------------------------
(***************************************************************************)
(* Battle and monster-progression engine of MonsterQuest:                  *)
(*   MonsterSystem (src/unnamed/part_007) and                              *)
(*   BattleSystem  (src/js/systems/BattleSystem.js).                       *)
(* Every public operation is one action; Math.random() draws are inputs    *)
(* chosen from small sets.  Real-valued formulas are computed exactly on   *)
(* integers (numerator/denominator) before the floor is taken.             *)
(***************************************************************************)
EXTENDS Integers, Sequences, FiniteSets, TLC

\* battleState: BattleSystem._battleState, the teams holding the monster
\*              instances; last: what the last call returned;
\* calls: stand-alone MonsterSystem calls made since the last startBattle
VARIABLES battleState, last, calls

vars == <<battleState, last, calls>>

(***************************************************************************)
(* Bounds of the model                                                     *)
(***************************************************************************)
\* executePlayerAction is explored while the turn counter is below MaxTurn
MaxTurn == 2
\* single _attemptRun calls are explored in sessions that count up to
\* MaxRunAttempts earlier attempts
MaxRunAttempts == 9
\* stand-alone MonsterSystem calls explored after each startBattle
MaxMonsterCalls == 1

(***************************************************************************)
(* Program constants                                                       *)
(***************************************************************************)
MAX_MONSTER_LEVEL == 100

Max(a, b) == IF a >= b THEN a ELSE b
Min(a, b) == IF a <= b THEN a ELSE b

StatNames == {"hp", "attack", "defense", "specialAttack", "specialDefense", "speed"}

(***************************************************************************)
(* Reference data (dataManager.get).  The JSON files are not part of the   *)
(* sources; monster-001 and ember are the examples of the data readme, the *)
(* other records follow the same schema.                                   *)
(***************************************************************************)
BaseStats(h, a, d, sa, sd, s) ==
    [hp |-> h, attack |-> a, defense |-> d,
     specialAttack |-> sa, specialDefense |-> sd, speed |-> s]

NoEvolution == [evolvesTo |-> "none", level |-> 0]

MonsterIds == {"monster-001", "monster-002", "monster-004", "monster-005",
               "monster-007", "monster-008", "monster-010", "monster-011",
               "monster-012", "monster-013"}

\* abilityLevels is kept as the sequence of its entries in insertion order
MonsterData(id) ==
    CASE id = "monster-001" ->
           [id |-> "monster-001", type |-> "fire",
            baseStats |-> BaseStats(45, 60, 40, 70, 50, 45),
            abilityLevels |-> << <<"ember", 1>>, <<"scratch", 1>>, <<"growl", 5>>,
                                 <<"fire-fang", 12>>, <<"flamethrower", 20>> >>,
            evolution |-> [evolvesTo |-> "monster-002", level |-> 16],
            catchRate |-> 45, expYield |-> 62, growthRate |-> "medium"]
      [] id = "monster-002" ->
           [id |-> "monster-002", type |-> "fire",
            baseStats |-> BaseStats(58, 64, 58, 80, 65, 80),
            abilityLevels |-> << <<"ember", 1>>, <<"scratch", 1>>, <<"growl", 5>>,
                                 <<"fire-fang", 12>>, <<"flamethrower", 20>> >>,
            evolution |-> NoEvolution,
            catchRate |-> 45, expYield |-> 142, growthRate |-> "medium"]
      [] id = "monster-004" ->
           [id |-> "monster-004", type |-> "water",
            baseStats |-> BaseStats(44, 48, 65, 50, 64, 43),
            abilityLevels |-> << <<"water-gun", 1>>, <<"mercy-strike", 1>>,
                                 <<"growl", 2>>, <<"scratch", 3>> >>,
            evolution |-> [evolvesTo |-> "monster-005", level |-> 2],
            catchRate |-> 45, expYield |-> 63, growthRate |-> "fast"]
      [] id = "monster-005" ->
           [id |-> "monster-005", type |-> "water",
            baseStats |-> BaseStats(59, 63, 80, 65, 80, 58),
            abilityLevels |-> << <<"water-gun", 1>>, <<"mercy-strike", 1>>,
                                 <<"growl", 2>>, <<"scratch", 3>> >>,
            evolution |-> NoEvolution,
            catchRate |-> 45, expYield |-> 142, growthRate |-> "slow"]
      [] id = "monster-007" ->
           [id |-> "monster-007", type |-> "grass",
            baseStats |-> BaseStats(45, 49, 49, 65, 40, 45),
            abilityLevels |-> << <<"poison-sting", 1>>, <<"recover", 1>>,
                                 <<"growl", 4>> >>,
            evolution |-> NoEvolution,
            catchRate |-> 255, expYield |-> 64, growthRate |-> "slow"]
      \* a record whose evolution names a species that has no record
      [] id = "monster-008" ->
           [id |-> "monster-008", type |-> "normal",
            baseStats |-> BaseStats(40, 45, 40, 35, 35, 56),
            abilityLevels |-> << <<"scratch", 1>>, <<"growl", 1>> >>,
            evolution |-> [evolvesTo |-> "monster-009", level |-> 20],
            catchRate |-> 190, expYield |-> 50, growthRate |-> "medium"]
      [] id = "monster-010" ->
           [id |-> "monster-010", type |-> "ghost",
            baseStats |-> BaseStats(30, 35, 30, 100, 35, 80),
            abilityLevels |-> << <<"scratch", 1>>, <<"haze", 1>>, <<"scald", 1>> >>,
            evolution |-> NoEvolution,
            catchRate |-> 90, expYield |-> 95, growthRate |-> "medium"]
      \* a line whose forms lose base HP (011 to 012) and keep it (012 to 013)
      [] id = "monster-011" ->
           [id |-> "monster-011", type |-> "bug",
            baseStats |-> BaseStats(60, 45, 90, 30, 30, 40),
            abilityLevels |-> << <<"scratch", 1>> >>,
            evolution |-> [evolvesTo |-> "monster-012", level |-> 20],
            catchRate |-> 255, expYield |-> 65, growthRate |-> "fast"]
      [] id = "monster-012" ->
           [id |-> "monster-012", type |-> "bug",
            baseStats |-> BaseStats(40, 90, 45, 50, 30, 120),
            abilityLevels |-> << <<"scratch", 1>> >>,
            evolution |-> [evolvesTo |-> "monster-013", level |-> 22],
            catchRate |-> 120, expYield |-> 155, growthRate |-> "fast"]
      [] id = "monster-013" ->
           [id |-> "monster-013", type |-> "bug",
            baseStats |-> BaseStats(40, 110, 55, 60, 40, 140),
            abilityLevels |-> << <<"scratch", 1>> >>,
            evolution |-> NoEvolution,
            catchRate |-> 45, expYield |-> 200, growthRate |-> "fast"]

AbilityIds == {"ember", "scratch", "growl", "fire-fang", "flamethrower",
               "water-gun", "poison-sting", "recover", "mercy-strike", "haze",
               "scald"}

StatusEffect(st, ch) ==
    [type |-> "status", target |-> "target", status |-> st, chance |-> ch,
     percentage |-> 0]
HealingEffect(tg, pct, ch) ==
    [type |-> "healing", target |-> tg, status |-> "none", chance |-> ch,
     percentage |-> pct]
StatEffect(tg, ch) ==
    [type |-> "stat", target |-> tg, status |-> "none", chance |-> ch,
     percentage |-> 0]

AbilityData(id) ==
    CASE id = "ember" ->
           [type |-> "fire", category |-> "special", power |-> 40, accuracy |-> 100,
            effects |-> << StatusEffect("burn", 10) >>]
      [] id = "scratch" ->
           [type |-> "normal", category |-> "physical", power |-> 40, accuracy |-> 95,
            effects |-> << >>]
      [] id = "growl" ->
           [type |-> "normal", category |-> "status", power |-> 0, accuracy |-> 100,
            effects |-> << StatEffect("target", 100) >>]
      [] id = "fire-fang" ->
           [type |-> "fire", category |-> "physical", power |-> 65, accuracy |-> 95,
            effects |-> << StatusEffect("burn", 10) >>]
      [] id = "flamethrower" ->
           [type |-> "fire", category |-> "special", power |-> 90, accuracy |-> 100,
            effects |-> << StatusEffect("burn", 10) >>]
      [] id = "water-gun" ->
           [type |-> "water", category |-> "special", power |-> 40, accuracy |-> 100,
            effects |-> << >>]
      [] id = "poison-sting" ->
           [type |-> "poison", category |-> "physical", power |-> 15, accuracy |-> 100,
            effects |-> << StatusEffect("poison", 30) >>]
      [] id = "recover" ->
           [type |-> "normal", category |-> "status", power |-> 0, accuracy |-> 100,
            effects |-> << HealingEffect("user", 50, 100) >>]
      [] id = "mercy-strike" ->
           [type |-> "ice", category |-> "physical", power |-> 90, accuracy |-> 100,
            effects |-> << HealingEffect("target", 10, 100) >>]
      \* an effect whose chance is 0
      [] id = "haze" ->
           [type |-> "poison", category |-> "special", power |-> 20, accuracy |-> 100,
            effects |-> << StatusEffect("poison", 0) >>]
      \* two effects, each with its own chance
      [] id = "scald" ->
           [type |-> "water", category |-> "special", power |-> 40, accuracy |-> 95,
            effects |-> << StatusEffect("burn", 30), HealingEffect("user", 10, 50) >>]

ItemIds == {"potion", "monster-ball", "town-map"}

\* effect.catchRate is kept in tenths (10 = 1.0)
ItemData(id) ==
    CASE id = "potion" ->
           [type |-> "potion", amount |-> 20, catchRate |-> 0]
      [] id = "monster-ball" ->
           [type |-> "ball", amount |-> 0, catchRate |-> 10]
      [] id = "town-map" ->
           [type |-> "key", amount |-> 0, catchRate |-> 0]

(***************************************************************************)
(* MonsterSystem                                                           *)
(***************************************************************************)
_generateEVs == [s \in StatNames |-> 0]

\* the two IV records the model draws for Math.floor(Math.random() * 32)
IVLow == [s \in StatNames |-> 0]
IVHigh == [s \in StatNames |-> 31]

\* mutant of _calculateStats: HP is derived like the other stats
_calculateStats_hpLikeOthers(baseStats, level, ivs, evs) ==
    [s \in StatNames |->
        ((2 * baseStats[s] + ivs[s] + (evs[s] \div 4)) * level) \div 100 + 5]

_calculateStats(baseStats, level, ivs, evs) ==
    [s \in StatNames |->
        IF s = "hp"
        THEN ((2 * baseStats.hp + ivs.hp + (evs.hp \div 4)) * level) \div 100 + level + 10
        ELSE ((2 * baseStats[s] + ivs[s] + (evs[s] \div 4)) * level) \div 100 + 5]

\* stable insertion of an entry into a sequence sorted by level
RECURSIVE InsertByLevel(_, _)
InsertByLevel(sorted, e) ==
    IF sorted = << >> THEN << e >>
    ELSE IF sorted[Len(sorted)][2] <= e[2]
         THEN Append(sorted, e)
         ELSE Append(InsertByLevel(SubSeq(sorted, 1, Len(sorted) - 1), e),
                     sorted[Len(sorted)])

RECURSIVE SortByLevel(_)
SortByLevel(entries) ==
    IF entries = << >> THEN << >>
    ELSE InsertByLevel(SortByLevel(SubSeq(entries, 1, Len(entries) - 1)),
                       entries[Len(entries)])

\* mutant of _getAbilitiesForLevel: the first 4 entries are kept
_getAbilitiesForLevel_first4(monsterData, level) ==
    LET known  == SelectSeq(monsterData.abilityLevels, LAMBDA e : e[2] <= level)
        sorted == SortByLevel(known)
        ids    == [i \in 1..Len(sorted) |-> sorted[i][1]]
    IN  IF Len(ids) <= 4 THEN ids ELSE SubSeq(ids, 1, 4)

_getAbilitiesForLevel(monsterData, level) ==
    LET known  == SelectSeq(monsterData.abilityLevels, LAMBDA e : e[2] <= level)
        sorted == SortByLevel(known)
        ids    == [i \in 1..Len(sorted) |-> sorted[i][1]]
    IN  IF Len(ids) <= 4 THEN ids ELSE SubSeq(ids, Len(ids) - 3, Len(ids))

\* mutant of _getLevelExperience: the level <= 0 test is dropped
_getLevelExperience_noGuard(level, growthRate) ==
    CASE growthRate = "fast" -> (4 * level * level * level) \div 5
      [] growthRate = "medium" -> level * level * level
      [] growthRate = "slow" -> (5 * level * level * level) \div 4
      [] OTHER -> level * level * level

_getLevelExperience(level, growthRate) ==
    IF level <= 0 THEN 0
    ELSE CASE growthRate = "fast" -> (4 * level * level * level) \div 5
           [] growthRate = "medium" -> level * level * level
           [] growthRate = "slow" -> (5 * level * level * level) \div 4
           [] OTHER -> level * level * level

\* options.ivs and options.evs are passed explicitly; abilities are level-based
createMonster(monsterId, level0, ivs, evs) ==
    LET monsterData == MonsterData(monsterId)
        level == IF level0 = 0 THEN 1 ELSE level0
        stats == _calculateStats(monsterData.baseStats, level, ivs, evs)
    IN  [id |-> monsterData.id,
         type |-> monsterData.type,
         level |-> level,
         experience |-> _getLevelExperience(level, monsterData.growthRate),
         nextLevelExperience |-> _getLevelExperience(level + 1, monsterData.growthRate),
         baseStats |-> monsterData.baseStats,
         stats |-> stats,
         currentHp |-> stats.hp,
         ivs |-> ivs,
         evs |-> evs,
         abilities |-> _getAbilitiesForLevel(monsterData, level),
         status |-> "none",
         catchRate |-> monsterData.catchRate]

\* mutant of CreateResult: an unknown species yields a monster-001 instance
CreateResult_placeholder(monsterId, level0, ivs, evs) ==
    IF monsterId \notin MonsterIds
    THEN << createMonster("monster-001", level0, ivs, evs) >>
    ELSE << createMonster(monsterId, level0, ivs, evs) >>

\* what createMonster returns: << >> for null (no record for monsterId),
\* the one instance otherwise
CreateResult(monsterId, level0, ivs, evs) ==
    IF monsterId \notin MonsterIds
    THEN << >>
    ELSE << createMonster(monsterId, level0, ivs, evs) >>

getExperienceYield(monster) ==
    IF monster.id \notin MonsterIds THEN 0
    ELSE (MonsterData(monster.id).expYield * monster.level) \div 7

\* mutant of LevelUpLoop: the MAX_MONSTER_LEVEL test is dropped
RECURSIVE LevelUpLoop_noCap(_, _)
LevelUpLoop_noCap(monster, newAbilities) ==
    IF monster.experience >= monster.nextLevelExperience
    THEN LET monsterData == MonsterData(monster.id)
             newLevel == monster.level + 1
             newStats == _calculateStats(monster.baseStats, newLevel,
                                         monster.ivs, monster.evs)
             hpDifference == newStats.hp - monster.stats.hp
             learned == SelectSeq(monsterData.abilityLevels,
                                  LAMBDA e : e[2] = newLevel)
         IN  LevelUpLoop_noCap(
                 [monster EXCEPT
                    !.level = newLevel,
                    !.stats = newStats,
                    !.currentHp = monster.currentHp + hpDifference,
                    !.nextLevelExperience =
                        _getLevelExperience(newLevel + 1, monsterData.growthRate)],
                 newAbilities \o [i \in 1..Len(learned) |-> learned[i][1]])
    ELSE [monster |-> monster, newAbilities |-> newAbilities]

\* the while loop of awardExperience
RECURSIVE LevelUpLoop(_, _)
LevelUpLoop(monster, newAbilities) ==
    IF monster.experience >= monster.nextLevelExperience
       /\ monster.level < MAX_MONSTER_LEVEL
    THEN LET monsterData == MonsterData(monster.id)
             newLevel == monster.level + 1
             newStats == _calculateStats(monster.baseStats, newLevel,
                                         monster.ivs, monster.evs)
             hpDifference == newStats.hp - monster.stats.hp
             learned == SelectSeq(monsterData.abilityLevels,
                                  LAMBDA e : e[2] = newLevel)
         IN  LevelUpLoop(
                 [monster EXCEPT
                    !.level = newLevel,
                    !.stats = newStats,
                    !.currentHp = monster.currentHp + hpDifference,
                    !.nextLevelExperience =
                        _getLevelExperience(newLevel + 1, monsterData.growthRate)],
                 newAbilities \o [i \in 1..Len(learned) |-> learned[i][1]])
    ELSE [monster |-> monster, newAbilities |-> newAbilities]

\* the result object of awardExperience; loop is the outcome of the while loop
AwardResult(monster, monsterData, loop) ==
    LET levelUp == loop.monster.level # monster.level
        canEvolve == /\ levelUp
                     /\ monsterData.evolution.evolvesTo # "none"
                     /\ monsterData.evolution.level # 0
                     /\ loop.monster.level >= monsterData.evolution.level
    IN  [monster |-> loop.monster, leveledUp |-> levelUp,
         levelsGained |-> loop.monster.level - monster.level,
         newAbilities |-> loop.newAbilities,
         canEvolve |-> canEvolve,
         evolutionId |-> IF canEvolve THEN monsterData.evolution.evolvesTo
                         ELSE "none"]

awardExperience(monster, amount) ==
    IF monster.id \notin MonsterIds
    THEN [monster |-> monster, leveledUp |-> FALSE, levelsGained |-> 0,
          newAbilities |-> << >>, canEvolve |-> FALSE, evolutionId |-> "none"]
    ELSE AwardResult(monster, MonsterData(monster.id),
                     LevelUpLoop([monster EXCEPT !.experience = @ + amount], << >>))

RECURSIVE Pow2(_)
Pow2(n) == IF n <= 0 THEN 1 ELSE 2 * Pow2(n - 1)

\* 2^s modulo m
RECURSIVE Pow2Mod(_, _)
Pow2Mod(s, m) == IF s <= 0 THEN 1 % m ELSE (2 * Pow2Mod(s - 1, m)) % m

\* the least j with c * 2^j >= o, for 1 <= c <= o
RECURSIVE BinaryShift(_, _)
BinaryShift(c, o) == IF c >= o THEN 0 ELSE 1 + BinaryShift(2 * c, o)

\* floor(log2(k)) for k >= 1
RECURSIVE Log2Floor(_)
Log2Floor(k) == IF k <= 1 THEN 0 ELSE 1 + Log2Floor(k \div 2)

\* n * (c / o) in double precision when n * c / o is the integer k: the
\* quotient c / o is rounded to 53 significant bits, which leaves it
\* rho / (o * 2^(52 + j)) below the exact quotient when the remainder
\* rho = c * 2^(52 + j) mod o is under o / 2, and at or above it otherwise; the
\* product is then rounded to the double next below k when it lies more than
\* half of the gap to that double below k (a tie goes to k)
ProductBelow(n, o, k, j, rho, ek) ==
    /\ rho # 0
    /\ 2 * rho < o
    /\ (IF k = Pow2(ek) THEN 4 ELSE 2) * n * rho > o * Pow2(j + ek)

\* Math.floor(n * (c / o)) in double precision, for 0 <= c <= o: a product
\* that is not an integer is farther than the rounding error from the next
\* integers, so its floor is exact
DoubleFloorOfRatio(n, c, o) ==
    IF c = 0 THEN 0
    ELSE IF (n * c) % o # 0 THEN (n * c) \div o
    ELSE IF ProductBelow(n, o, (n * c) \div o, BinaryShift(c, o),
                         (c * Pow2Mod(52 + BinaryShift(c, o), o)) % o,
                         Log2Floor((n * c) \div o))
         THEN (n * c) \div o - 1
         ELSE (n * c) \div o

\* the species evolveMonster creates, "none" when it returns its argument
EvolutionTarget(monster) ==
    IF \/ monster.id \notin MonsterIds
       \/ MonsterData(monster.id).evolution.evolvesTo = "none"
       \/ MonsterData(monster.id).evolution.evolvesTo \notin MonsterIds
    THEN "none"
    ELSE MonsterData(monster.id).evolution.evolvesTo

\* the evolved instance; evolvedMonster is the instance createMonster built
Evolved(monster, evolvedMonster) ==
    [evolvedMonster EXCEPT
       !.experience = monster.experience,
       !.nextLevelExperience = monster.nextLevelExperience,
       !.currentHp = DoubleFloorOfRatio(evolvedMonster.stats.hp,
                                        monster.currentHp, monster.stats.hp)]

\* mutant of evolveMonster: without a target the instance is built anew
evolveMonster_recreate(monster) ==
    IF EvolutionTarget(monster) = "none"
    THEN createMonster(monster.id, monster.level, monster.ivs, monster.evs)
    ELSE Evolved(monster, createMonster(EvolutionTarget(monster), monster.level,
                                        monster.ivs, monster.evs))

\* mutant of evolveMonster: the evolved instance is created without
\* options.ivs, so that new individual values are drawn
evolveMonster_newIvs(monster) ==
    IF EvolutionTarget(monster) = "none"
    THEN monster
    ELSE Evolved(monster, createMonster(EvolutionTarget(monster), monster.level,
                                        IVHigh, monster.evs))

evolveMonster(monster) ==
    IF EvolutionTarget(monster) = "none"
    THEN monster
    ELSE Evolved(monster, createMonster(EvolutionTarget(monster), monster.level,
                                        monster.ivs, monster.evs))

\* mutant of applyDamage: the Math.max(0, ...) clamp is dropped
applyDamage_noClamp(monster, damage) ==
    LET hp == monster.currentHp - damage
    IN  [monster |-> [monster EXCEPT !.currentHp = hp],
         previousHp |-> monster.currentHp,
         currentHp |-> hp,
         fainted |-> hp = 0]

applyDamage(monster, damage) ==
    LET hp == Max(0, monster.currentHp - damage)
    IN  [monster |-> [monster EXCEPT !.currentHp = hp],
         previousHp |-> monster.currentHp,
         currentHp |-> hp,
         fainted |-> hp = 0]

\* mutant of healMonster: the Math.min(stats.hp, ...) cap is dropped
healMonster_noCap(monster, amount) ==
    LET hp == IF amount = -1 THEN monster.stats.hp
              ELSE monster.currentHp + amount
    IN  [monster |-> [monster EXCEPT !.currentHp = hp],
         healAmount |-> hp - monster.currentHp,
         previousHp |-> monster.currentHp,
         currentHp |-> hp]

\* amount = -1 stands for an omitted amount (full heal)
healMonster(monster, amount) ==
    LET hp == IF amount = -1 THEN monster.stats.hp
              ELSE Min(monster.stats.hp, monster.currentHp + amount)
    IN  [monster |-> [monster EXCEPT !.currentHp = hp],
         healAmount |-> hp - monster.currentHp,
         previousHp |-> monster.currentHp,
         currentHp |-> hp]

\* mutant of applyStatus: a new status replaces the one the monster has
applyStatus_override(monster, status) ==
    [monster |-> [monster EXCEPT !.status = status], applied |-> TRUE]

applyStatus(monster, status) ==
    IF monster.status # "none"
    THEN [monster |-> monster, applied |-> FALSE]
    ELSE [monster |-> [monster EXCEPT !.status = status], applied |-> TRUE]

clearStatus(monster) ==
    [monster |-> [monster EXCEPT !.status = "none"], previous |-> monster.status]

\* numerator and denominator of the unclamped catch value
\* ((3*maxHp - 2*currentHp) * catchRate * ballBonus * statusBonus) / (3*maxHp);
\* ballBonus10 is the ball bonus in tenths, 0 standing for an absent one
CatchNum(monster, ballBonus10, statusBonus) ==
    (3 * monster.stats.hp - 2 * monster.currentHp) * monster.catchRate
      * (IF ballBonus10 = 0 THEN 10 ELSE ballBonus10)
      * (IF statusBonus THEN 3 ELSE 2)
CatchDen(monster) == 3 * monster.stats.hp * 10 * 2

\* the probability as the fraction ClampedNum / (255 * CatchDen)
calculateCatchProbability(monster, ballBonus10, statusBonus) ==
    [num |-> Min(255 * CatchDen(monster),
                 Max(0, CatchNum(monster, ballBonus10, statusBonus))),
     den |-> 255 * CatchDen(monster)]

\* draw is Math.random() in thousandths
attemptCatch(monster, ballBonus10, statusBonus, draw) ==
    LET p == calculateCatchProbability(monster, ballBonus10, statusBonus)
    IN  draw * p.den < 1000 * p.num

(***************************************************************************)
(* BattleSystem                                                            *)
(***************************************************************************)
\* the identifier A of the fighting row is bound nowhere in the sources;
\* -1 marks the entry as none of the multipliers
A == -1

TypeNames == <<"normal", "fire", "water", "grass", "electric", "ice", "fighting",
               "poison", "ground", "flying", "psychic", "bug", "rock", "ghost",
               "dragon">>

\* the chart rows, every multiplier doubled (0, 1, 2, 4 for 0, 0.5, 1, 2),
\* columns in the order of TypeNames
_typeChart ==
    [normal   |-> <<2, 2, 2, 2, 2, 2, 2, 2, 2, 2, 2, 2, 1, 0, 2>>,
     fire     |-> <<2, 1, 1, 4, 2, 4, 2, 2, 2, 2, 2, 4, 1, 2, 1>>,
     water    |-> <<2, 4, 1, 1, 2, 2, 2, 2, 4, 2, 2, 2, 4, 2, 1>>,
     grass    |-> <<2, 1, 4, 1, 2, 2, 2, 1, 4, 1, 2, 1, 4, 2, 1>>,
     electric |-> <<2, 2, 4, 1, 1, 2, 2, 2, 0, 4, 2, 2, 2, 2, 1>>,
     ice      |-> <<2, 1, 1, 4, 2, 1, 2, 2, 4, 4, 2, 2, 2, 2, 4>>,
     fighting |-> <<4, 2, A, 2, 2, 4, 2, 1, 2, 1, 1, 1, 4, 0, 2>>,
     poison   |-> <<2, 2, 2, 4, 2, 2, 2, 1, 1, 2, 2, 2, 1, 1, 2>>,
     ground   |-> <<2, 4, 2, 1, 4, 2, 2, 4, 2, 0, 2, 1, 4, 2, 2>>,
     flying   |-> <<2, 2, 2, 4, 1, 2, 4, 2, 2, 2, 2, 4, 1, 2, 2>>,
     psychic  |-> <<2, 2, 2, 2, 2, 2, 4, 4, 2, 2, 1, 2, 2, 2, 2>>,
     bug      |-> <<2, 1, 2, 4, 2, 2, 1, 1, 2, 1, 4, 2, 2, 1, 2>>,
     rock     |-> <<2, 4, 2, 2, 2, 4, 1, 2, 1, 4, 2, 4, 2, 2, 2>>,
     ghost    |-> <<0, 2, 2, 2, 2, 2, 2, 2, 2, 2, 4, 2, 2, 4, 2>>,
     dragon   |-> <<2, 2, 2, 2, 2, 2, 2, 2, 2, 2, 2, 2, 2, 2, 4>>]

TypeIndex(t) == CHOOSE i \in 1..Len(TypeNames) : TypeNames[i] = t

IsType(t) == \E i \in 1..Len(TypeNames) : TypeNames[i] = t

\* doubled multiplier; 2 (neutral) when either type is not in the chart
_calculateTypeEffectiveness(attackType, defenderType) ==
    IF IsType(attackType) /\ IsType(defenderType)
    THEN _typeChart[attackType][TypeIndex(defenderType)]
    ELSE 2

\* mutant of AbilityDamage: a physical or special ability deals at least 1
AbilityDamage_atLeastOne(user, target, ability, random) ==
    IF ability.category = "physical" \/ ability.category = "special"
    THEN LET attackStat  == IF ability.category = "physical"
                            THEN user.stats.attack ELSE user.stats.specialAttack
             defenseStat == IF ability.category = "physical"
                            THEN target.stats.defense ELSE target.stats.specialDefense
             baseNum == (2 * user.level + 10) * ability.power * attackStat
                          + 500 * defenseStat
             baseDen == 250 * defenseStat
             stab2 == IF ability.type = user.type THEN 3 ELSE 2
             eff2  == _calculateTypeEffectiveness(ability.type, target.type)
         IN  Max(1, (baseNum * stab2 * eff2 * random) \div (baseDen * 2 * 2 * 1000))
    ELSE 0

\* floor(((2*level/5 + 2) * power * atk / def / 50 + 2) * stab * typeEff * random)
\* with random in thousandths
AbilityDamage(user, target, ability, random) ==
    IF ability.category = "physical" \/ ability.category = "special"
    THEN LET attackStat  == IF ability.category = "physical"
                            THEN user.stats.attack ELSE user.stats.specialAttack
             defenseStat == IF ability.category = "physical"
                            THEN target.stats.defense ELSE target.stats.specialDefense
             baseNum == (2 * user.level + 10) * ability.power * attackStat
                          + 500 * defenseStat
             baseDen == 250 * defenseStat
             stab2 == IF ability.type = user.type THEN 3 ELSE 2
             eff2  == _calculateTypeEffectiveness(ability.type, target.type)
         IN  (baseNum * stab2 * eff2 * random) \div (baseDen * 2 * 2 * 1000)
    ELSE 0

NoBattleResult ==
    [winner |-> "none", escaped |-> FALSE, caught |-> FALSE, needSwitch |-> FALSE,
     canEvolve |-> FALSE, evolutionId |-> "none"]

\* the state built by the constructor
InitialBattleState ==
    [active |-> FALSE, turn |-> 0, playerTeam |-> << >>, enemyTeam |-> << >>,
     activePlayerMonster |-> 0, activeEnemyMonster |-> 0, battleType |-> "wild",
     weather |-> "none", field |-> "none",
     runAttempts |-> 0, result |-> NoBattleResult]

\* mutant of startBattle: the first member is made active without the
\* length test
startBattle_noLengthTest(playerTeam, enemyTeam, battleType) ==
    [active |-> TRUE, turn |-> 0, playerTeam |-> playerTeam, enemyTeam |-> enemyTeam,
     activePlayerMonster |-> 1,
     activeEnemyMonster |-> 1,
     battleType |-> battleType,
     weather |-> "none", field |-> "none",
     runAttempts |-> 0, result |-> NoBattleResult]

\* active monsters are kept as positions in their team, 0 for null; the
\* state object is a new one, in which runAttempts is not set
startBattle(playerTeam, enemyTeam, battleType) ==
    [active |-> TRUE, turn |-> 0, playerTeam |-> playerTeam, enemyTeam |-> enemyTeam,
     activePlayerMonster |-> IF Len(playerTeam) > 0 THEN 1 ELSE 0,
     activeEnemyMonster |-> IF Len(enemyTeam) > 0 THEN 1 ELSE 0,
     battleType |-> battleType,
     weather |-> "none", field |-> "none",
     runAttempts |-> 0, result |-> NoBattleResult]

\* an option of startBattle: absent, an array or a single monster instance
NoOption == [kind |-> "absent", value |-> << >>]
ArrayOption(team) == [kind |-> "array", value |-> team]
InstanceOption(monster) == [kind |-> "instance", value |-> monster]

\* options.playerTeam || [] and options.enemyTeam || [], the latter wrapped
\* into an array when it is not one; options.battleType || 'wild'
PlayerTeamOption(option) ==
    IF option.kind = "absent" THEN << >> ELSE option.value
EnemyTeamOption(option) ==
    CASE option.kind = "absent" -> << >>
      [] option.kind = "instance" -> << option.value >>
      [] OTHER -> option.value
BattleTypeOption(battleType) == IF battleType = "" THEN "wild" ELSE battleType

\* mutant of endBattle: the active flag is left set
endBattle_keepActive(b, result) == [b EXCEPT !.result = result]

endBattle(b, result) == [b EXCEPT !.active = FALSE, !.result = result]

TeamOf(b, team) == IF team = "player" THEN b.playerTeam ELSE b.enemyTeam
ActiveOf(b, team) ==
    IF team = "player" THEN b.activePlayerMonster ELSE b.activeEnemyMonster
Opponent(team) == IF team = "player" THEN "enemy" ELSE "player"

SetMonster(b, team, i, m) ==
    IF team = "player" THEN [b EXCEPT !.playerTeam[i] = m]
    ELSE [b EXCEPT !.enemyTeam[i] = m]

\* mutant of _getNextMonster: any member qualifies, fainted or active
_getNextMonster_anyMember(b, team) ==
    IF Len(TeamOf(b, team)) = 0 THEN 0 ELSE 1

\* first member that is not the active one and has HP left, 0 for null
_getNextMonster(b, team) ==
    LET teamArray == TeamOf(b, team)
        ok == {i \in 1..Len(teamArray) :
                 i # ActiveOf(b, team) /\ teamArray[i].currentHp > 0}
    IN  IF ok = {} THEN 0 ELSE CHOOSE i \in ok : \A j \in ok : i <= j

\* the forEach over ability.effects; rolls[i] is Math.random() * 100 of effect i
RECURSIVE ApplyEffects(_, _, _, _, _)
ApplyEffects(user, target, effects, rolls, i) ==
    IF i > Len(effects) THEN [user |-> user, target |-> target]
    ELSE LET effect == effects[i]
             effectChance == IF effect.chance = 0 THEN 100 ELSE effect.chance
             effectSuccess == rolls[i] <= effectChance
             onUser == effect.target = "user"
             subject == IF onUser THEN user ELSE target
             changed ==
                 CASE effect.type = "status" ->
                        applyStatus(subject, effect.status).monster
                   [] effect.type = "healing" ->
                        healMonster(subject,
                            (subject.stats.hp * effect.percentage) \div 100).monster
                   [] OTHER -> subject
         IN  IF ~effectSuccess
             THEN ApplyEffects(user, target, effects, rolls, i + 1)
             ELSE IF onUser
                  THEN ApplyEffects(changed, target, effects, rolls, i + 1)
                  ELSE ApplyEffects(user, changed, effects, rolls, i + 1)

\* a result record: expAwarded, userHp and catchHp are -1 when no experience
\* was awarded, no ability was resolved and attemptCatch was not invoked;
\* userIndex is the team position of the monster that resolved the ability
NoAbilityResult ==
    [success |-> FALSE, hit |-> FALSE, damage |-> 0, fainted |-> FALSE,
     battleEnded |-> FALSE, battleResult |-> NoBattleResult,
     expAwarded |-> -1, userHp |-> -1, userIndex |-> 0, catchHp |-> -1,
     events |-> << >>]

\* the player's ability made the last enemy faint: experience for the user,
\* evolution eligibility in the battle result, battle ended
BattleWon(b1, ui, base, hitEvents, expYield, expResult) ==
    LET battleResult ==
            [NoBattleResult EXCEPT
               !.winner = "player",
               !.canEvolve = expResult.canEvolve,
               !.evolutionId = expResult.evolutionId]
    IN  [b |-> endBattle(SetMonster(b1, "player", ui, expResult.monster),
                         battleResult),
         r |-> [base EXCEPT
                  !.battleEnded = TRUE,
                  !.battleResult = battleResult,
                  !.expAwarded = expYield,
                  !.events = hitEvents \o
                     <<"player:faint", "player:experience", "player:end">>]]

\* the faint handling of _executeAbility; b1 is the session after damage and
\* effects, fainted is damageResult.fainted, user and target are the monsters
\* as the effects left them
FaintHandling(b1, team, ui, fainted, user, target, base, hitEvents) ==
    LET next == _getNextMonster(b1, Opponent(team))
    IN
    IF ~fainted
    THEN [b |-> b1, r |-> [base EXCEPT !.events = hitEvents]]
    ELSE IF team = "player"
    THEN \* the active enemy monster fainted
         IF next # 0
         THEN [b |-> [b1 EXCEPT !.activeEnemyMonster = next],
               r |-> [base EXCEPT !.events = hitEvents \o
                                     <<"player:faint", "player:promote">>]]
         ELSE BattleWon(b1, ui, base, hitEvents, getExperienceYield(target),
                        awardExperience(user, getExperienceYield(target)))
    ELSE \* the active player monster fainted
         IF next # 0
         THEN [b |-> b1,
               r |-> [base EXCEPT
                        !.battleResult = [NoBattleResult EXCEPT !.needSwitch = TRUE],
                        !.events = hitEvents \o <<"enemy:faint", "enemy:needSwitch">>]]
         ELSE [b |-> endBattle(b1, [NoBattleResult EXCEPT !.winner = "enemy"]),
               r |-> [base EXCEPT
                        !.battleEnded = TRUE,
                        !.battleResult = [NoBattleResult EXCEPT !.winner = "enemy"],
                        !.events = hitEvents \o <<"enemy:faint", "enemy:end">>]]

\* after is the pair of monsters once the effects loop has run
EffectsApplied(b, team, ui, ti, fainted, after, base, hitEvents) ==
    FaintHandling(SetMonster(SetMonster(b, team, ui, after.user),
                             Opponent(team), ti, after.target),
                  team, ui, fainted, after.user, after.target, base, hitEvents)

\* the ability hit: damage, then the effects, then the faint handling
AbilityHit(b, team, ui, ti, ability, damage, rolls) ==
    LET user == TeamOf(b, team)[ui]
        target == TeamOf(b, Opponent(team))[ti]
        damageResult == applyDamage(target, damage)
    IN  EffectsApplied(b, team, ui, ti,
            damage > 0 /\ damageResult.fainted,
            ApplyEffects(user,
                         IF damage > 0 THEN damageResult.monster ELSE target,
                         ability.effects, rolls, 1),
            [NoAbilityResult EXCEPT !.success = TRUE, !.hit = TRUE,
                                    !.damage = damage,
                                    !.fainted = damage > 0 /\ damageResult.fainted,
                                    !.userHp = user.currentHp,
                                    !.userIndex = ui],
            <<team \o ":hit">>
               \o (IF damage > 0 THEN <<team \o ":damage">> ELSE << >>)
               \o (IF Len(ability.effects) > 0 THEN <<team \o ":effects">>
                   ELSE << >>))

\* mutant of _executeAbility: the effects loop also runs after a miss
_executeAbility_effectsOnMiss(b, team, abilityId, accuracyRoll, random, rolls) ==
    LET ui == ActiveOf(b, team)
        ti == ActiveOf(b, Opponent(team))
        user == TeamOf(b, team)[ActiveOf(b, team)]
        target == TeamOf(b, Opponent(team))[ActiveOf(b, Opponent(team))]
    IN
    IF abilityId \notin AbilityIds
    THEN [b |-> b, r |-> NoAbilityResult]
    ELSE IF \A k \in 1..Len(user.abilities) : user.abilities[k] # abilityId
    THEN [b |-> b, r |-> NoAbilityResult]
    ELSE IF ~(accuracyRoll <= AbilityData(abilityId).accuracy)
    THEN [b |-> AbilityHit(b, team, ui, ti, AbilityData(abilityId), 0, rolls).b,
          r |-> [NoAbilityResult EXCEPT !.success = TRUE,
                                        !.userHp = user.currentHp,
                                        !.userIndex = ui,
                                        !.events = <<team \o ":miss">>]]
    ELSE AbilityHit(b, team, ui, ti, AbilityData(abilityId),
                    AbilityDamage(user, target, AbilityData(abilityId), random),
                    rolls)

\* team is the side of the user; the target is the active monster of the other
\* side.  accuracyRoll is Math.random() * 100, random the damage factor.
_executeAbility(b, team, abilityId, accuracyRoll, random, rolls) ==
    LET ui == ActiveOf(b, team)
        ti == ActiveOf(b, Opponent(team))
        user == TeamOf(b, team)[ActiveOf(b, team)]
        target == TeamOf(b, Opponent(team))[ActiveOf(b, Opponent(team))]
    IN
    IF abilityId \notin AbilityIds
    THEN [b |-> b, r |-> NoAbilityResult]
    ELSE IF \A k \in 1..Len(user.abilities) : user.abilities[k] # abilityId
    THEN [b |-> b, r |-> NoAbilityResult]
    ELSE IF ~(accuracyRoll <= AbilityData(abilityId).accuracy)
    THEN [b |-> b,
          r |-> [NoAbilityResult EXCEPT !.success = TRUE,
                                        !.userHp = user.currentHp,
                                        !.userIndex = ui,
                                        !.events = <<team \o ":miss">>]]
    ELSE AbilityHit(b, team, ui, ti, AbilityData(abilityId),
                    AbilityDamage(user, target, AbilityData(abilityId), random),
                    rolls)

\* mutant of _useItem: a ball is thrown in every battle type
_useItem_noWildCheck(b, itemId, targetId, catchDraw) ==
    IF itemId \notin ItemIds
    THEN [b |-> b, r |-> NoAbilityResult]
    ELSE
    LET item == ItemData(itemId)
        matches == {i \in 1..Len(b.playerTeam) : b.playerTeam[i].id = targetId}
        target == IF targetId # ""
                  THEN (IF matches = {} THEN 0
                        ELSE CHOOSE i \in matches : \A j \in matches : j <= i)
                  ELSE b.activePlayerMonster
        enemy == b.enemyTeam[b.activeEnemyMonster]
    IN
    IF target = 0
    THEN [b |-> b, r |-> NoAbilityResult]
    ELSE
    CASE item.type = "potion" ->
           LET healAmount == IF item.amount = 0 THEN 20 ELSE item.amount
           IN  [b |-> SetMonster(b, "player", target,
                         healMonster(b.playerTeam[target], healAmount).monster),
                r |-> [NoAbilityResult EXCEPT !.success = TRUE,
                                              !.events = <<"player:heal">>]]
      [] item.type = "ball" ->
           IF attemptCatch(enemy, item.catchRate, enemy.status # "none", catchDraw)
           THEN LET battleResult == [NoBattleResult EXCEPT !.winner = "player",
                                                         !.caught = TRUE]
                IN  [b |-> endBattle(b, battleResult),
                     r |-> [NoAbilityResult EXCEPT
                              !.success = TRUE, !.battleEnded = TRUE,
                              !.battleResult = battleResult,
                              !.catchHp = enemy.currentHp,
                              !.events = <<"player:catch", "player:end">>]]
           ELSE [b |-> b,
                 r |-> [NoAbilityResult EXCEPT
                          !.success = TRUE, !.catchHp = enemy.currentHp,
                          !.events = <<"player:catch">>]]
      [] OTHER -> [b |-> b, r |-> NoAbilityResult]

\* targetId "" stands for an absent target id; catchDraw is Math.random() in
\* thousandths
_useItem(b, itemId, targetId, catchDraw) ==
    IF itemId \notin ItemIds
    THEN [b |-> b, r |-> NoAbilityResult]
    ELSE
    LET item == ItemData(itemId)
        matches == {i \in 1..Len(b.playerTeam) : b.playerTeam[i].id = targetId}
        target == IF targetId # ""
                  THEN (IF matches = {} THEN 0
                        ELSE CHOOSE i \in matches : \A j \in matches : j <= i)
                  ELSE b.activePlayerMonster
        enemy == b.enemyTeam[b.activeEnemyMonster]
    IN
    IF target = 0
    THEN [b |-> b, r |-> NoAbilityResult]
    ELSE
    CASE item.type = "potion" ->
           LET healAmount == IF item.amount = 0 THEN 20 ELSE item.amount
           IN  [b |-> SetMonster(b, "player", target,
                         healMonster(b.playerTeam[target], healAmount).monster),
                r |-> [NoAbilityResult EXCEPT !.success = TRUE,
                                              !.events = <<"player:heal">>]]
      [] item.type = "ball" ->
           IF b.battleType # "wild"
           THEN [b |-> b, r |-> NoAbilityResult]
           ELSE IF attemptCatch(enemy, item.catchRate, enemy.status # "none", catchDraw)
           THEN LET battleResult == [NoBattleResult EXCEPT !.winner = "player",
                                                         !.caught = TRUE]
                IN  [b |-> endBattle(b, battleResult),
                     r |-> [NoAbilityResult EXCEPT
                              !.success = TRUE, !.battleEnded = TRUE,
                              !.battleResult = battleResult,
                              !.catchHp = enemy.currentHp,
                              !.events = <<"player:catch", "player:end">>]]
           ELSE [b |-> b,
                 r |-> [NoAbilityResult EXCEPT
                          !.success = TRUE, !.catchHp = enemy.currentHp,
                          !.events = <<"player:catch">>]]
      [] OTHER -> [b |-> b, r |-> NoAbilityResult]

\* stands for action.switchIndex being absent (undefined)
NoIndex == -100

\* mutant of _switchMonster: the fainted check is dropped
_switchMonster_noFaintCheck(b, index) ==
    IF index = NoIndex
    THEN [b |-> b, r |-> [NoAbilityResult EXCEPT !.events = <<"TypeError">>]]
    ELSE IF index < 0 \/ index >= Len(b.playerTeam)
    THEN [b |-> b, r |-> NoAbilityResult]
    ELSE IF b.activePlayerMonster = index + 1
    THEN [b |-> b, r |-> NoAbilityResult]
    ELSE [b |-> [b EXCEPT !.activePlayerMonster = index + 1],
          r |-> [NoAbilityResult EXCEPT !.success = TRUE,
                                        !.events = <<"player:switch">>]]

\* index is the 0-based array index of the action.  An undefined index passes
\* both range comparisons and the identity test, and reading currentHp of
\* teamArray[undefined] raises a TypeError: nothing was changed, no result is
\* returned, the event "TypeError" marks the exception
_switchMonster(b, index) ==
    IF index = NoIndex
    THEN [b |-> b, r |-> [NoAbilityResult EXCEPT !.events = <<"TypeError">>]]
    ELSE IF index < 0 \/ index >= Len(b.playerTeam)
    THEN [b |-> b, r |-> NoAbilityResult]
    ELSE IF b.activePlayerMonster = index + 1
    THEN [b |-> b, r |-> NoAbilityResult]
    ELSE IF b.playerTeam[index + 1].currentHp <= 0
    THEN [b |-> b, r |-> NoAbilityResult]
    ELSE [b |-> [b EXCEPT !.activePlayerMonster = index + 1],
          r |-> [NoAbilityResult EXCEPT !.success = TRUE,
                                        !.events = <<"player:switch">>]]

\* mutant of escapeChance: the attempts do not raise the chance
escapeChance_noAttempts(playerSpeed, enemySpeed, runAttempts) ==
    (playerSpeed * 128) \div enemySpeed

\* mutant of escapeChance: the threshold grows by 20 for each attempt
escapeChance_step20(playerSpeed, enemySpeed, runAttempts) ==
    (playerSpeed * 128) \div enemySpeed + 20 * runAttempts

escapeChance(playerSpeed, enemySpeed, runAttempts) ==
    (playerSpeed * 128) \div enemySpeed + 30 * runAttempts

\* mutant of _attemptRun: the attempt is counted only when the escape fails
_attemptRun_countOnFailure(b, randomValue) ==
    IF b.battleType # "wild"
    THEN [b |-> b, r |-> NoAbilityResult]
    ELSE
    LET playerSpeed == b.playerTeam[b.activePlayerMonster].stats.speed
        enemySpeed == b.enemyTeam[b.activeEnemyMonster].stats.speed
        b1 == [b EXCEPT !.runAttempts = @ + 1]
    IN  IF randomValue < escapeChance(playerSpeed, enemySpeed, b1.runAttempts)
        THEN LET battleResult == [NoBattleResult EXCEPT !.escaped = TRUE]
             IN  [b |-> endBattle(b, battleResult),
                  r |-> [NoAbilityResult EXCEPT
                           !.success = TRUE, !.battleEnded = TRUE,
                           !.battleResult = battleResult,
                           !.events = <<"player:run", "player:end">>]]
        ELSE [b |-> b1,
              r |-> [NoAbilityResult EXCEPT !.success = TRUE,
                                            !.events = <<"player:run">>]]

\* randomValue is Math.floor(Math.random() * 256)
_attemptRun(b, randomValue) ==
    IF b.battleType # "wild"
    THEN [b |-> b, r |-> NoAbilityResult]
    ELSE
    LET playerSpeed == b.playerTeam[b.activePlayerMonster].stats.speed
        enemySpeed == b.enemyTeam[b.activeEnemyMonster].stats.speed
        b1 == [b EXCEPT !.runAttempts = @ + 1]
    IN  IF randomValue < escapeChance(playerSpeed, enemySpeed, b1.runAttempts)
        THEN LET battleResult == [NoBattleResult EXCEPT !.escaped = TRUE]
             IN  [b |-> endBattle(b1, battleResult),
                  r |-> [NoAbilityResult EXCEPT
                           !.success = TRUE, !.battleEnded = TRUE,
                           !.battleResult = battleResult,
                           !.events = <<"player:run", "player:end">>]]
        ELSE [b |-> b1,
              r |-> [NoAbilityResult EXCEPT !.success = TRUE,
                                            !.events = <<"player:run">>]]

\* choiceDraw is Math.random() in thousandths
_executeEnemyAction(b, choiceDraw, accuracyRoll, random, rolls) ==
    IF b.activeEnemyMonster = 0
    THEN [b |-> b, r |-> NoAbilityResult]
    ELSE LET abilities == b.enemyTeam[b.activeEnemyMonster].abilities
         IN  IF Len(abilities) = 0
             THEN [b |-> b, r |-> NoAbilityResult]
             ELSE _executeAbility(b, "enemy",
                      abilities[(choiceDraw * Len(abilities)) \div 1000 + 1],
                      accuracyRoll, random, rolls)

StatusDamage(monster) ==
    IF monster.status = "burn" \/ monster.status = "poison"
    THEN Max(1, monster.stats.hp \div 8)
    ELSE 0

\* mutant of _applyStatusEffects: only the player's active monster is ticked
_applyStatusEffects_playerOnly(b) ==
    LET p == b.activePlayerMonster
    IN  IF p # 0 /\ StatusDamage(b.playerTeam[p]) > 0
        THEN SetMonster(b, "player", p,
                 applyDamage(b.playerTeam[p], StatusDamage(b.playerTeam[p])).monster)
        ELSE b

_applyStatusEffects(b) ==
    LET p == b.activePlayerMonster
        e == b.activeEnemyMonster
        b1 == IF p # 0 /\ StatusDamage(b.playerTeam[p]) > 0
              THEN SetMonster(b, "player", p,
                       applyDamage(b.playerTeam[p], StatusDamage(b.playerTeam[p])).monster)
              ELSE b
    IN  IF e # 0 /\ StatusDamage(b1.enemyTeam[e]) > 0
        THEN SetMonster(b1, "enemy", e,
                 applyDamage(b1.enemyTeam[e], StatusDamage(b1.enemyTeam[e])).monster)
        ELSE b1

\* weather is never set, so _applyWeatherEffects returns at once
_startNewTurn(b) == _applyStatusEffects([b EXCEPT !.turn = @ + 1])

\* the current HP of every member of both teams
TeamHp(b) ==
    [player |-> [i \in 1..Len(b.playerTeam) |-> b.playerTeam[i].currentHp],
     enemy |-> [i \in 1..Len(b.enemyTeam) |-> b.enemyTeam[i].currentHp]]

NoEnemyAction == [called |-> FALSE, r |-> NoAbilityResult]

\* the switch over action.type
PlayerStep(b, action, d) ==
    CASE action.type = "ability" ->
           _executeAbility(b, "player", action.abilityId,
                           d.accuracyRoll, d.random, d.rolls)
      [] action.type = "item" ->
           _useItem(b, action.itemId, action.targetId, d.catchDraw)
      [] action.type = "switch" -> _switchMonster(b, action.switchIndex)
      [] action.type = "run" -> _attemptRun(b, d.runDraw)
      [] OTHER -> [b |-> b, r |-> NoAbilityResult]

\* the automatic enemy action on the session the player's action left
EnemyTurn(first, enemyActs, d) ==
    IF enemyActs
    THEN _executeEnemyAction(first.b, d.choiceDraw, d.enemyAccuracyRoll,
                             d.enemyRandom, d.enemyRolls)
    ELSE [b |-> first.b, r |-> NoAbilityResult]

\* the value executePlayerAction returns: the player's result with the
\* enemy's result attached, after the new turn when one is started;
\* beforeTurn keeps the HP the monsters had when _startNewTurn was reached
CallResult(first, second, enemyActs, newTurn) ==
    [b |-> IF newTurn THEN _startNewTurn(second.b) ELSE second.b,
     r |-> first.r,
     enemyAction |-> [called |-> enemyActs, r |-> second.r],
     newTurn |-> newTurn,
     beforeTurn |-> TeamHp(second.b)]

\* mutant of AfterPlayerAction: result.success is not tested
AfterPlayerAction_afterFailure(first, d) ==
    CallResult(first,
               EnemyTurn(first, ~first.r.battleEnded, d),
               ~first.r.battleEnded,
               ~first.r.battleEnded)

\* both tests of result.success && !result.battleEnded read the player's result
AfterPlayerAction(first, d) ==
    CallResult(first,
               EnemyTurn(first, first.r.success /\ ~first.r.battleEnded, d),
               first.r.success /\ ~first.r.battleEnded,
               first.r.success /\ ~first.r.battleEnded)

\* mutant of executePlayerAction: the enemy acts after every successful
\* player action, also one that ended the battle
executePlayerAction_enemyAfterEnd(b, action, d) ==
    IF ~b.active \/ b.activePlayerMonster = 0
    THEN [b |-> b, r |-> NoAbilityResult, enemyAction |-> NoEnemyAction,
          newTurn |-> FALSE, beforeTurn |-> TeamHp(b)]
    ELSE LET first == PlayerStep(b, action, d)
         IN  CallResult(first, EnemyTurn(first, first.r.success, d),
                        first.r.success,
                        first.r.success /\ ~first.r.battleEnded)

\* mutant of executePlayerAction: the active flag is not checked
executePlayerAction_noActiveCheck(b, action, d) ==
    IF b.activePlayerMonster = 0
    THEN [b |-> b, r |-> NoAbilityResult, enemyAction |-> NoEnemyAction,
          newTurn |-> FALSE, beforeTurn |-> TeamHp(b)]
    ELSE AfterPlayerAction(PlayerStep(b, action, d), d)

\* action: [type, abilityId, itemId, targetId, switchIndex];
\* d: the Math.random() draws of the call
executePlayerAction(b, action, d) ==
    IF ~b.active \/ b.activePlayerMonster = 0
    THEN [b |-> b, r |-> NoAbilityResult, enemyAction |-> NoEnemyAction,
          newTurn |-> FALSE, beforeTurn |-> TeamHp(b)]
    ELSE AfterPlayerAction(PlayerStep(b, action, d), d)

(***************************************************************************)
(* Inputs: teams handed to startBattle, player actions, Math.random draws  *)
(***************************************************************************)
Ember1 == createMonster("monster-001", 1, IVLow, _generateEVs)
Water1 == createMonster("monster-004", 1, IVLow, _generateEVs)
WaterHigh1 == createMonster("monster-004", 1, IVHigh, _generateEVs)
Leaf1 == createMonster("monster-007", 1, IVLow, _generateEVs)

\* a party member that fainted in an earlier battle: the party keeps its
\* monster objects from one battle to the next
WaterFainted == applyDamage(WaterHigh1, WaterHigh1.stats.hp).monster

PlayerTeams == { <<Ember1>>, <<Ember1, WaterHigh1>>, <<Ember1, WaterFainted>> }
EnemyTeams == { <<Leaf1>>, <<Leaf1, Water1>> }
BattleTypes == {"wild", "trainer"}

\* Math.random() * 100 of the accuracy and effect checks
RollValues == {0, 99}
\* 0.85 + Math.random() * 0.15 in thousandths
RandomFactors == {850, 999}
\* Math.random() in thousandths
CatchDraws == {0, 999}
AIChoiceDraws == {0, 999}
\* Math.floor(Math.random() * 256)
RunDraws == {157, 158, 255}
ExperienceAmounts == {0, 9, 30}

\* only the draws that an ability reads are varied
AccuracyRolls(abilityId) ==
    IF abilityId \in AbilityIds /\ AbilityData(abilityId).accuracy < 99
    THEN RollValues ELSE {0}

DamageRandoms(abilityId) ==
    IF abilityId \in AbilityIds /\ AbilityData(abilityId).category # "status"
    THEN RandomFactors ELSE {850}

EffectRolls(abilityId) ==
    IF abilityId \notin AbilityIds THEN { << >> }
    ELSE LET effects == AbilityData(abilityId).effects
         IN  {f \in [1..Len(effects) -> RollValues] :
                \A i \in 1..Len(effects) :
                   (effects[i].chance >= 99 \/ effects[i].chance = 0) => f[i] = 0}

NoAction == [type |-> "none", abilityId |-> "", itemId |-> "", targetId |-> "",
             switchIndex |-> 0]

NoDraws == [accuracyRoll |-> 0, random |-> 850, rolls |-> << >>, catchDraw |-> 0,
            runDraw |-> 0, choiceDraw |-> 0, enemyAccuracyRoll |-> 0,
            enemyRandom |-> 850, enemyRolls |-> << >>]

NoAward == [called |-> FALSE, index |-> 0, amount |-> 0, leveledUp |-> FALSE,
            levelsGained |-> 0, canEvolve |-> FALSE, evolutionId |-> "none"]

\* the argument and the returned values of a direct MonsterSystem call:
\* applyDamage, healMonster (amount -1 for an omitted one), applyStatus,
\* clearStatus, evolveMonster (evolved holds the returned instance, same
\* tells that it is the argument itself), createMonster (created holds the
\* returned instance and is empty for null)
NoCall == [amount |-> 0, status |-> "none", fainted |-> FALSE,
           previousHp |-> 0, currentHp |-> 0, healAmount |-> 0,
           applied |-> FALSE, previous |-> "none",
           evolved |-> << >>, same |-> FALSE,
           monsterId |-> "", level |-> 0, created |-> << >>]

\* a call of one of the functions that read no state: its name, its
\* arguments and the value it returned
NoFn == [name |-> "none", args |-> << >>, result |-> << >>]

\* what the last call did: the operation, the action and its type, the run
\* draw, the player's result, the attached enemyAction, whether _startNewTurn
\* ran and the HP of the teams just before it, and whether the session was
\* active when the call was made
NoLast ==
    [op |-> "constructor", type |-> "none", action |-> NoAction, runDraw |-> 0,
     r |-> NoAbilityResult,
     enemyAction |-> NoEnemyAction, newTurn |-> FALSE,
     wasActive |-> FALSE, award |-> NoAward, call |-> NoCall, fn |-> NoFn,
     beforeTurn |-> [player |-> << >>, enemy |-> << >>]]

\* the ability the enemy AI picks in state b, "" when it has none to pick
EnemyAbility(b, choiceDraw) ==
    IF b.activeEnemyMonster = 0 THEN ""
    ELSE LET abilities == b.enemyTeam[b.activeEnemyMonster].abilities
         IN  IF Len(abilities) = 0 THEN ""
             ELSE abilities[(choiceDraw * Len(abilities)) \div 1000 + 1]

\* an inactive session returns before it reads its inputs, so one
\* representative d of the input set S is enough there
WhileActive(S, d) == IF battleState.active THEN S ELSE {d}

\* one call of executePlayerAction with the player's draws pd
Call(action, pd) ==
    /\ battleState.active => battleState.turn < MaxTurn
    /\ \E choiceDraw \in WhileActive(AIChoiceDraws, 0) :
       \E ability \in
            {IF ~battleState.active \/ battleState.activePlayerMonster = 0
             THEN ""
             ELSE EnemyAbility(PlayerStep(battleState, action, pd).b, choiceDraw)} :
       \E ea \in AccuracyRolls(ability), er \in DamageRandoms(ability),
          ef \in EffectRolls(ability) :
       \E res \in {executePlayerAction(battleState, action,
                       [pd EXCEPT !.choiceDraw = choiceDraw,
                                  !.enemyAccuracyRoll = ea,
                                  !.enemyRandom = er, !.enemyRolls = ef])} :
          /\ battleState' = res.b
          /\ last' = [NoLast EXCEPT
                        !.op = "executePlayerAction",
                        !.type = action.type,
                        !.action = action,
                        !.runDraw = pd.runDraw,
                        !.r = res.r,
                        !.enemyAction = res.enemyAction,
                        !.newTurn = res.newTurn,
                        !.beforeTurn = res.beforeTurn,
                        !.wasActive = battleState.active]
          /\ UNCHANGED calls

Init ==
    /\ battleState = InitialBattleState
    /\ last = NoLast
    /\ calls = 0

StartBattle ==
    \E pt \in PlayerTeams, et \in EnemyTeams, bt \in BattleTypes :
       /\ battleState' = startBattle(pt, et, bt)
       /\ last' = [NoLast EXCEPT !.op = "startBattle",
                                 !.wasActive = battleState.active]
       /\ calls' = 0

\* the abilities offered to the player: those of the active monster, one that
\* exists but is not known at this level, and one that does not exist
AbilityChoices(b) ==
    (IF b.activePlayerMonster = 0 THEN {}
     ELSE {b.playerTeam[b.activePlayerMonster].abilities[k] :
             k \in 1..Len(b.playerTeam[b.activePlayerMonster].abilities)})
      \cup {"flamethrower", "no-such-ability"}

PlayerAbility ==
    \E abilityId \in WhileActive(AbilityChoices(battleState), "ember") :
      \E a \in AccuracyRolls(abilityId), rnd \in DamageRandoms(abilityId),
         f \in EffectRolls(abilityId) :
        Call([NoAction EXCEPT !.type = "ability", !.abilityId = abilityId],
             [NoDraws EXCEPT !.accuracyRoll = a, !.random = rnd, !.rolls = f])

PlayerItem ==
    \E itemId \in WhileActive(ItemIds \cup {"no-such-item"}, "potion"),
       targetId \in WhileActive({"", "monster-001", "monster-999"}, "") :
      \E c \in (IF itemId = "monster-ball" THEN CatchDraws ELSE {0}) :
        Call([NoAction EXCEPT !.type = "item", !.itemId = itemId,
                              !.targetId = targetId],
             [NoDraws EXCEPT !.catchDraw = c])

PlayerSwitch ==
    \E index \in WhileActive((-1..2) \cup {NoIndex}, 0) :
        Call([NoAction EXCEPT !.type = "switch", !.switchIndex = index], NoDraws)

PlayerRun ==
    \E rd \in WhileActive(RunDraws, 0) :
        Call([NoAction EXCEPT !.type = "run"], [NoDraws EXCEPT !.runDraw = rd])

PlayerInvalid ==
    Call([NoAction EXCEPT !.type = "dance"], NoDraws)

\* MonsterSystem.awardExperience called on a party member between battles
AwardExperience ==
    /\ ~battleState.active
    /\ calls < MaxMonsterCalls
    /\ calls' = calls + 1
    /\ \E i \in 1..Len(battleState.playerTeam), amount \in ExperienceAmounts :
         LET res == awardExperience(battleState.playerTeam[i], amount)
         IN  /\ battleState' = [battleState EXCEPT !.playerTeam[i] = res.monster]
             /\ last' = [NoLast EXCEPT
                           !.op = "awardExperience",
                           !.award = [called |-> TRUE, index |-> i,
                                      amount |-> amount,
                                      leveledUp |-> res.leveledUp,
                                      levelsGained |-> res.levelsGained,
                                      canEvolve |-> res.canEvolve,
                                      evolutionId |-> res.evolutionId]]

\* MonsterSystem.evolveMonster, the result replacing the party member
EvolveMonster ==
    /\ ~battleState.active
    /\ calls < MaxMonsterCalls
    /\ calls' = calls + 1
    /\ \E i \in 1..Len(battleState.playerTeam) :
         /\ battleState' = [battleState EXCEPT
                              !.playerTeam[i] = evolveMonster(battleState.playerTeam[i])]
         /\ last' = [NoLast EXCEPT !.op = "evolveMonster",
                                   !.award = [NoAward EXCEPT !.index = i]]

Next ==
    \/ StartBattle
    \/ PlayerAbility
    \/ PlayerItem
    \/ PlayerSwitch
    \/ PlayerRun
    \/ PlayerInvalid
    \/ AwardExperience
    \/ EvolveMonster

Spec == Init /\ [][Next]_vars

(***************************************************************************)
(* MonsterSystem called directly on one instance                           *)
(***************************************************************************)
MaxCalls == 2

InstanceLevels == {1, 15, 79, 99, 100}

\* the instances createMonster builds for the species and levels above
MonsterInstances ==
    {createMonster(id, level, IVLow, _generateEVs) :
        id \in {"monster-001", "monster-004", "monster-007", "monster-008"},
        level \in InstanceLevels}

DamageAmounts == {0, 1, 7, 104, 1000}
\* -1 for a call without an amount
HealAmounts == {-1, 0, 3, 1000}
StatusNames == {"burn", "poison"}
LevelExperienceAmounts == {0, 1, 30, 3000, 40000}

\* the instance the calls act on
Subject == battleState.playerTeam[1]

MonsterInit ==
    /\ \E m \in MonsterInstances :
          battleState = [InitialBattleState EXCEPT !.playerTeam = <<m>>]
    /\ last = NoLast
    /\ calls = 0

ApplyDamage ==
    /\ calls < MaxCalls
    /\ calls' = calls + 1
    /\ \E damage \in DamageAmounts :
       \E res \in {applyDamage(Subject, damage)} :
          /\ battleState' = [battleState EXCEPT !.playerTeam[1] = res.monster]
          /\ last' = [NoLast EXCEPT
                        !.op = "applyDamage",
                        !.call = [NoCall EXCEPT !.amount = damage,
                                                !.fainted = res.fainted,
                                                !.previousHp = res.previousHp,
                                                !.currentHp = res.currentHp]]

HealMonster ==
    /\ calls < MaxCalls
    /\ calls' = calls + 1
    /\ \E amount \in HealAmounts :
       \E res \in {healMonster(Subject, amount)} :
          /\ battleState' = [battleState EXCEPT !.playerTeam[1] = res.monster]
          /\ last' = [NoLast EXCEPT
                        !.op = "healMonster",
                        !.call = [NoCall EXCEPT !.amount = amount,
                                                !.healAmount = res.healAmount,
                                                !.previousHp = res.previousHp,
                                                !.currentHp = res.currentHp]]

ApplyStatus ==
    /\ calls < MaxCalls
    /\ calls' = calls + 1
    /\ \E status \in StatusNames :
       \E res \in {applyStatus(Subject, status)} :
          /\ battleState' = [battleState EXCEPT !.playerTeam[1] = res.monster]
          /\ last' = [NoLast EXCEPT
                        !.op = "applyStatus",
                        !.call = [NoCall EXCEPT !.status = status,
                                                !.applied = res.applied]]

ClearStatus ==
    /\ calls < MaxCalls
    /\ calls' = calls + 1
    /\ \E res \in {clearStatus(Subject)} :
          /\ battleState' = [battleState EXCEPT !.playerTeam[1] = res.monster]
          /\ last' = [NoLast EXCEPT
                        !.op = "clearStatus",
                        !.call = [NoCall EXCEPT !.previous = res.previous]]

GainExperience ==
    /\ calls < MaxCalls
    /\ calls' = calls + 1
    /\ \E amount \in LevelExperienceAmounts :
       \E res \in {awardExperience(Subject, amount)} :
          /\ battleState' = [battleState EXCEPT !.playerTeam[1] = res.monster]
          /\ last' = [NoLast EXCEPT
                        !.op = "awardExperience",
                        !.award = [called |-> TRUE, index |-> 1,
                                   amount |-> amount,
                                   leveledUp |-> res.leveledUp,
                                   levelsGained |-> res.levelsGained,
                                   canEvolve |-> res.canEvolve,
                                   evolutionId |-> res.evolutionId]]

\* evolveMonster(Subject); the caller keeps the argument
Evolve ==
    /\ calls < MaxCalls
    /\ calls' = calls + 1
    /\ last' = [NoLast EXCEPT
                  !.op = "evolveMonster",
                  !.call = [NoCall EXCEPT
                              !.evolved = << evolveMonster(Subject) >>,
                              !.same = EvolutionTarget(Subject) = "none"]]
    /\ UNCHANGED battleState

\* species and levels handed to createMonster: a species with five
\* abilities, one with three, one without a record; level 0 for a missing one
CreateIds == {"monster-001", "monster-007", "monster-999"}
CreateLevels == {0, 5, 20}

\* createMonster(monsterId, level, {ivs}); the caller keeps its instance
CreateMonster ==
    /\ calls < MaxCalls
    /\ calls' = calls + 1
    /\ \E monsterId \in CreateIds, level \in CreateLevels :
          last' = [NoLast EXCEPT
                     !.op = "createMonster",
                     !.call = [NoCall EXCEPT
                                 !.monsterId = monsterId,
                                 !.level = level,
                                 !.created = CreateResult(monsterId, level, IVLow,
                                                          _generateEVs)]]
    /\ UNCHANGED battleState

MonsterNext ==
    \/ ApplyDamage
    \/ HealMonster
    \/ ApplyStatus
    \/ ClearStatus
    \/ GainExperience
    \/ Evolve
    \/ CreateMonster

MonsterSpec == MonsterInit /\ [][MonsterNext]_vars

(***************************************************************************)
(* Single calls of the functions of MonsterSystem and BattleSystem: the     *)
(* arguments are drawn at the start, one action applies each function      *)
(***************************************************************************)
\* the state in which function name is about to be called with args
Arguments(name, args) ==
    /\ battleState = InitialBattleState
    /\ calls = 0
    /\ last = [NoLast EXCEPT !.op = "arguments",
                             !.fn = [NoFn EXCEPT !.name = name, !.args = args]]

\* the call of function name is pending
Pending(name) == last.op = "arguments" /\ last.fn.name = name

\* function name returns result
Return(name, result) ==
    /\ last' = [last EXCEPT !.op = name, !.fn.result = result]
    /\ UNCHANGED <<battleState, calls>>

\* options.ballBonus in tenths
BallBonuses == {0, 5, 10, 20}

\* a wild monster at each HP, and the options of a catch
CatchArguments ==
    [monster : {[m EXCEPT !.currentHp = hp] :
                   m \in {Ember1, Leaf1}, hp \in {0, 1, 5, 11}},
     ballBonus : BallBonuses,
     statusBonus : BOOLEAN]

\* two calls on the same monster object
CatchArgumentPairs ==
    {p \in [x : CatchArguments, y : CatchArguments] :
        p.x.monster.id = p.y.monster.id}

CalculateCatchProbability ==
    /\ Pending("calculateCatchProbability")
    /\ Return("calculateCatchProbability",
              [x |-> calculateCatchProbability(last.fn.args.x.monster,
                         last.fn.args.x.ballBonus, last.fn.args.x.statusBonus),
               y |-> calculateCatchProbability(last.fn.args.y.monster,
                         last.fn.args.y.ballBonus, last.fn.args.y.statusBonus)])

\* the types of the chart and two names it does not have
TypeArguments ==
    [attackType : {TypeNames[i] : i \in 1..Len(TypeNames)} \cup {"shadow", ""},
     defenderType : {TypeNames[i] : i \in 1..Len(TypeNames)} \cup {"shadow", ""}]

CalculateTypeEffectiveness ==
    /\ Pending("_calculateTypeEffectiveness")
    /\ Return("_calculateTypeEffectiveness",
              _calculateTypeEffectiveness(last.fn.args.attackType,
                                          last.fn.args.defenderType))

\* the same value for each of the six stats
Uniform(v) == [s \in StatNames |-> v]

StatArguments ==
    [baseStats : {Uniform(0), MonsterData("monster-001").baseStats, Uniform(255)},
     level : {1, 5, 50, 100},
     ivs : {Uniform(0), Uniform(10), Uniform(31)},
     evs : {Uniform(0), Uniform(3), Uniform(4), Uniform(255)}]

CalculateStats ==
    /\ Pending("_calculateStats")
    /\ Return("_calculateStats",
              _calculateStats(last.fn.args.baseStats, last.fn.args.level,
                              last.fn.args.ivs, last.fn.args.evs))

\* levels around 0 and up to the one after the cap; a growth rate the
\* switch does not list
LevelArguments ==
    [level : (-2)..(MAX_MONSTER_LEVEL + 1),
     growthRate : {"fast", "medium", "slow", "erratic"}]

\* the threshold of the level and of the level after it
GetLevelExperience ==
    /\ Pending("_getLevelExperience")
    /\ Return("_getLevelExperience",
              [x |-> _getLevelExperience(last.fn.args.level,
                                         last.fn.args.growthRate),
               y |-> _getLevelExperience(last.fn.args.level + 1,
                                         last.fn.args.growthRate)])

(***************************************************************************)
(* Single calls of the methods that work on a session: the session and the *)
(* draws of the call are drawn at the start, one action applies the method *)
(***************************************************************************)
\* method name is about to be called with args in session b
SessionArguments(name, b, args) ==
    /\ battleState = b
    /\ calls = 0
    /\ last = [NoLast EXCEPT !.op = "arguments",
                             !.fn = [NoFn EXCEPT !.name = name, !.args = args]]

\* method name returns res.r and leaves the session res.b
SessionReturn(name, res) ==
    /\ battleState' = res.b
    /\ last' = [last EXCEPT !.op = name, !.r = res.r]
    /\ UNCHANGED calls

Ghost1 == createMonster("monster-010", 1, IVLow, _generateEVs)

\* a level-10 fire user with special attack 70 and a grass target with
\* special defense 50 (options.ivs is taken as the caller passes it)
ExampleUser ==
    createMonster("monster-001", 10, [IVLow EXCEPT !.specialAttack = 510],
                  _generateEVs)
ExampleTarget ==
    createMonster("monster-007", 10, [IVLow EXCEPT !.specialDefense = 370],
                  _generateEVs)

\* each monster unharmed and with 1 HP left
AbilityMonsters ==
    {[m EXCEPT !.currentHp = IF whole THEN m.stats.hp ELSE 1] :
        m \in {Ember1, Leaf1, Water1, Ghost1}, whole \in BOOLEAN}
      \cup {ExampleUser, ExampleTarget}

\* sessions in their first turn, one monster on each side
AbilitySessions ==
    {[startBattle(<<p>>, <<e>>, "wild") EXCEPT !.turn = 1] :
        p \in AbilityMonsters, e \in AbilityMonsters}

\* Math.random() * 100 on both sides of the accuracy 95 and of the effect
\* chances 10, 30 and 50
AbilityAccuracyRolls == {0, 95, 96}
AbilityEffectRolls == {0, 30, 31, 99}
\* 0.85 + Math.random() * 0.15 in thousandths, 1.0 included
AbilityRandoms == {850, 1000}

\* the abilities the user knows, with the draws each of them reads
AbilityArguments(b) ==
    {a \in [team : {"player", "enemy"},
            abilityId : AbilityIds,
            accuracyRoll : AbilityAccuracyRolls,
            random : AbilityRandoms] :
        /\ \E k \in 1..Len(TeamOf(b, a.team)[1].abilities) :
              TeamOf(b, a.team)[1].abilities[k] = a.abilityId
        /\ AbilityData(a.abilityId).accuracy = 100 => a.accuracyRoll = 0
        /\ AbilityData(a.abilityId).category = "status" => a.random = 850}

ExecuteAbility ==
    /\ Pending("_executeAbility")
    /\ \E res \in {_executeAbility(battleState, last.fn.args.team,
                        last.fn.args.abilityId, last.fn.args.accuracyRoll,
                        last.fn.args.random, last.fn.args.rolls)} :
          SessionReturn("_executeAbility", res)

\* the session startBattle finds: the one of the constructor, one that an
\* escape ended after three run attempts, and one still active after one
EarlierSessions ==
    {InitialBattleState,
     endBattle([startBattle(<<Ember1>>, <<Leaf1>>, "wild") EXCEPT
                  !.turn = 2, !.runAttempts = 3],
               [NoBattleResult EXCEPT !.escaped = TRUE]),
     [startBattle(<<Ember1>>, <<Leaf1, Water1>>, "trainer") EXCEPT
        !.turn = 1, !.runAttempts = 1, !.activeEnemyMonster = 2]}

StartBattleArguments ==
    [playerTeam : {NoOption, ArrayOption(<< >>), ArrayOption(<<Leaf1>>),
                   ArrayOption(<<WaterFainted, Ember1>>)},
     enemyTeam : {NoOption, ArrayOption(<< >>), ArrayOption(<<Water1, Leaf1>>),
                  InstanceOption(Leaf1), InstanceOption(Ghost1)},
     battleType : {"", "wild", "trainer"}]

CallStartBattle ==
    /\ Pending("startBattle")
    /\ SessionReturn("startBattle",
          [b |-> startBattle(PlayerTeamOption(last.fn.args.playerTeam),
                             EnemyTeamOption(last.fn.args.enemyTeam),
                             BattleTypeOption(last.fn.args.battleType)),
           r |-> NoAbilityResult])

\* a level-100 enemy, much faster than a level-1 player monster
GhostFast == createMonster("monster-010", MAX_MONSTER_LEVEL, IVLow, _generateEVs)

\* sessions in which the player has tried to run n times
RunSessions ==
    {[startBattle(<<Ember1>>, <<e>>, t) EXCEPT !.turn = n, !.runAttempts = n] :
        e \in {Leaf1, GhostFast}, t \in BattleTypes, n \in 0..MaxRunAttempts}

\* Math.floor(Math.random() * 256)
AttemptRunDraws == {0, 127, 128, 242, 243, 255}

AttemptRun ==
    /\ Pending("_attemptRun")
    /\ \E res \in {_attemptRun(battleState, last.fn.args.randomValue)} :
          SessionReturn("_attemptRun", res)

\* instances at or above the level of their evolution, fainted, with 1 or
\* 2 HP left and unharmed
EvolveArguments ==
    [monster : {[m EXCEPT !.currentHp = IF hp = -1 THEN m.stats.hp ELSE hp] :
                  m \in {createMonster("monster-001", 21, IVLow, _generateEVs),
                         createMonster("monster-011", 20, IVLow, _generateEVs),
                         createMonster("monster-011", 21, IVHigh, _generateEVs),
                         createMonster("monster-012", 22, IVLow, _generateEVs),
                         createMonster("monster-012", 30, IVLow, _generateEVs)},
                  hp \in {-1, 0, 1, 2}}]

EvolveMonsterCall ==
    /\ Pending("evolveMonster")
    /\ Return("evolveMonster", evolveMonster(last.fn.args.monster))

FunctionInit ==
    \/ \E args \in EvolveArguments : Arguments("evolveMonster", args)
    \/ \E b \in RunSessions : \E rd \in AttemptRunDraws :
          SessionArguments("_attemptRun", b, [randomValue |-> rd])
    \/ \E b \in EarlierSessions : \E options \in StartBattleArguments :
          SessionArguments("startBattle", b,
              [playerTeam |-> options.playerTeam,
               enemyTeam |-> options.enemyTeam,
               battleType |-> options.battleType,
               runAttemptsBefore |-> b.runAttempts])
    \/ \E b \in AbilitySessions : \E a \in AbilityArguments(b) :
          \E rolls \in [1..Len(AbilityData(a.abilityId).effects)
                          -> AbilityEffectRolls] :
             SessionArguments("_executeAbility", b,
                 [team |-> a.team, abilityId |-> a.abilityId,
                  accuracyRoll |-> a.accuracyRoll, random |-> a.random,
                  rolls |-> rolls])
    \/ \E args \in CatchArgumentPairs :
          Arguments("calculateCatchProbability", args)
    \/ \E args \in TypeArguments :
          Arguments("_calculateTypeEffectiveness", args)
    \/ \E args \in StatArguments :
          Arguments("_calculateStats", args)
    \/ \E args \in LevelArguments :
          Arguments("_getLevelExperience", args)

FunctionNext ==
    \/ CalculateCatchProbability
    \/ CalculateTypeEffectiveness
    \/ CalculateStats
    \/ GetLevelExperience
    \/ ExecuteAbility
    \/ CallStartBattle
    \/ AttemptRun
    \/ EvolveMonsterCall

FunctionSpec == FunctionInit /\ [][FunctionNext]_vars

(***************************************************************************)
(* Properties                                                              *)
(***************************************************************************)
Has(seq, e) == \E i \in 1..Len(seq) : seq[i] = e

ExecReturned == last.op = "executePlayerAction"

AllFainted(team) == \A i \in 1..Len(team) : team[i].currentHp = 0

HpInRange(m) == 0 <= m.currentHp /\ m.currentHp <= m.stats.hp

\* C1: every monster instance of either team has 0 <= currentHp <= stats.hp
\* in every state reached by startBattle, executePlayerAction, upkeep,
\* awardExperience and evolveMonster.
C1_HpWithinBounds ==
    /\ \A i \in 1..Len(battleState.playerTeam) : HpInRange(battleState.playerTeam[i])
    /\ \A i \in 1..Len(battleState.enemyTeam) : HpInRange(battleState.enemyTeam[i])

\* a battle was won by a damaged monster that levelled up from the experience
C1_Witness ==
    /\ ExecReturned
    /\ last.r.expAwarded > 0
    /\ \E i \in 1..Len(battleState.playerTeam) :
          /\ battleState.playerTeam[i].level > 1
          /\ battleState.playerTeam[i].currentHp > 0
          /\ battleState.playerTeam[i].currentHp < battleState.playerTeam[i].stats.hp

\* C2: within one executePlayerAction call the new turn (turn counter + 1 and
\* burn/poison upkeep) happens if and only if the player action succeeded and
\* the battle is still active when the call returns.
C2_NewTurnIffStillActive ==
    ExecReturned => (last.newTurn <=> (last.r.success /\ battleState.active))

\* C3: the enemy action is resolved exactly when the player action succeeded
\* and did not end the battle; it is resolved on the session as the player's
\* completed action left it (the enemy monster promoted by the player's
\* action is the one that acts) and it is attached as a record of its own.
C3_EnemyActionAfterPlayer ==
    ExecReturned =>
      /\ last.enemyAction.called <=> (last.r.success /\ ~last.r.battleEnded)
      /\ ~last.enemyAction.called => last.enemyAction.r = NoAbilityResult
      /\ (last.enemyAction.called /\ last.enemyAction.r.success) =>
            /\ last.enemyAction.r.userIndex = battleState.activeEnemyMonster
            /\ \A i \in 1..Len(last.enemyAction.r.events) :
                  last.enemyAction.r.events[i] \notin
                      {"player:hit", "player:damage", "player:faint",
                       "player:experience", "player:promote", "player:end"}
      /\ \A i \in 1..Len(last.r.events) :
            last.r.events[i] \notin {"enemy:hit", "enemy:miss", "enemy:damage",
                                     "enemy:faint", "enemy:needSwitch", "enemy:end"}

\* the player's ability made the active enemy faint, the next enemy was
\* promoted and then resolved the enemy action
C3_Witness ==
    /\ ExecReturned
    /\ Has(last.r.events, "player:promote")
    /\ last.enemyAction.called
    /\ last.enemyAction.r.hit
    /\ last.enemyAction.r.userIndex = 2

\* C4: once the active flag is false, every executePlayerAction call returns
\* success:false and changes nothing of the session, until startBattle.
C4_EndedIsAbsorbing ==
    [][(~battleState.active /\ last'.op = "executePlayerAction")
          => (battleState' = battleState /\ ~last'.r.success)]_vars

\* an ability action was issued after the battle had ended with a winner
C4_Witness ==
    /\ ExecReturned
    /\ ~last.wasActive
    /\ last.type = "ability"
    /\ battleState.result.winner = "player"
    /\ ~last.r.success

\* C5: the session becomes inactive inside executePlayerAction only when a
\* terminal condition holds at that moment: winner 'player' implies the whole
\* enemy team is at 0 HP or the enemy was caught, winner 'enemy' implies the
\* whole player team is at 0 HP, escaped implies a successful wild run.
C5_EndsOnlyWhenTerminal ==
    (ExecReturned /\ last.wasActive /\ ~battleState.active) =>
      /\ battleState.result.winner = "player" =>
            (battleState.result.caught \/ AllFainted(battleState.enemyTeam))
      /\ battleState.result.winner = "enemy" => AllFainted(battleState.playerTeam)
      /\ battleState.result.escaped =>
            (last.type = "run" /\ battleState.battleType = "wild" /\ last.r.success)
      /\ battleState.result.winner # "none" \/ battleState.result.escaped

\* C6: whenever executePlayerAction has returned and the session is still
\* active, each team has at least one member with currentHp > 0.
C6_ActiveImpliesBothTeamsAlive ==
    (ExecReturned /\ battleState.active) =>
      /\ ~AllFainted(battleState.enemyTeam)
      /\ ~AllFainted(battleState.playerTeam)

\* C7: while the session is active the active enemy monster has currentHp > 0,
\* so attemptCatch is never invoked on a monster with currentHp 0.
C7_NoCatchOfFainted ==
    /\ (battleState.active /\ battleState.activeEnemyMonster # 0) =>
          battleState.enemyTeam[battleState.activeEnemyMonster].currentHp > 0
    /\ last.r.catchHp # 0

\* C8: a monster with currentHp 0 never resolves an ability: neither the
\* player's ability action nor the automatic enemy action.
C8_FaintedNeverActs ==
    ExecReturned =>
      /\ last.r.userHp # 0
      /\ last.enemyAction.r.userHp # 0

\* C9: every time a player ability reduces the active enemy monster to 0 HP
\* the user is awarded experience in that call, both when another enemy is
\* promoted and when the battle ends as a player win.
C9_ExperienceOnEveryFaint ==
    (ExecReturned /\ last.type = "ability" /\ last.r.fainted) =>
        last.r.expAwarded >= 0

C11_NeedSwitchOrEnemyWin ==
    (ExecReturned /\ last.enemyAction.called /\ last.enemyAction.r.fainted) =>
      LET others == {j \in 1..Len(battleState.playerTeam) :
                       /\ j # battleState.activePlayerMonster
                       /\ battleState.playerTeam[j].currentHp > 0}
          er == last.enemyAction.r
      IN  IF others # {}
          THEN /\ er.battleResult.needSwitch
               /\ ~er.battleEnded
               /\ er.battleResult.winner = "none"
               /\ battleState.active
          ELSE /\ ~er.battleResult.needSwitch
               /\ er.battleEnded
               /\ er.battleResult.winner = "enemy"
               /\ battleState.result.winner = "enemy"
               /\ ~battleState.active

\* the promoted enemy made the first of two player monsters faint: needSwitch
C11_Witness ==
    /\ ExecReturned
    /\ last.enemyAction.called
    /\ last.enemyAction.r.fainted
    /\ last.enemyAction.r.battleResult.needSwitch
    /\ battleState.active
    /\ Len(battleState.playerTeam) = 2
    /\ battleState.playerTeam[battleState.activePlayerMonster].currentHp = 0
    /\ battleState.playerTeam[2].currentHp > 0

\* a switch action with an index was resolved in this step by an active session
SwitchStep ==
    /\ last'.op = "executePlayerAction"
    /\ last'.type = "switch"
    /\ last'.action.switchIndex # NoIndex
    /\ battleState.active
    /\ battleState.activePlayerMonster # 0

\* C12: a switch to player team index i succeeds exactly when i names a team
\* member that is not the active monster and has currentHp > 0; on success that
\* member becomes the active player monster, on failure the active player
\* monster is unchanged and success is false.
C12_SwitchSucceedsIffAliveOther ==
    [][SwitchStep =>
        LET i == last'.action.switchIndex
            ok == /\ 0 <= i
                  /\ i < Len(battleState.playerTeam)
                  /\ i + 1 # battleState.activePlayerMonster
                  /\ battleState.playerTeam[i + 1].currentHp > 0
        IN  /\ last'.r.success <=> ok
            /\ ok => battleState'.activePlayerMonster = i + 1
            /\ ~ok => /\ battleState'.activePlayerMonster =
                           battleState.activePlayerMonster
                      /\ battleState' = battleState]_vars

\* the second party member was switched in
C12_Witness ==
    /\ ExecReturned
    /\ last.type = "switch"
    /\ last.action.switchIndex = 1
    /\ last.r.success
    /\ battleState.activePlayerMonster = 2

\* C13: for every switch index that does not name a member of the player team
\* (negative, at least the team length, or absent) the switch action returns a
\* success:false result and never raises.
C13_InvalidIndexNeverRaises ==
    (/\ ExecReturned
     /\ last.wasActive
     /\ last.type = "switch"
     /\ \/ last.action.switchIndex = NoIndex
        \/ last.action.switchIndex < 0
        \/ last.action.switchIndex >= Len(battleState.playerTeam))
      => /\ ~last.r.success
         /\ ~Has(last.r.events, "TypeError")

\* a run action was resolved in this step by an active session
RunStep ==
    /\ last'.op = "executePlayerAction"
    /\ last'.type = "run"
    /\ battleState.active
    /\ battleState.activePlayerMonster # 0

\* C14: a run action in a trainer battle returns success:false and the battle
\* stays active; in a wild battle every run action increments the run-attempt
\* counter by exactly 1, whether or not the escape succeeds.
C14_RunCountsEveryAttempt ==
    [][RunStep =>
        IF battleState.battleType = "wild"
        THEN battleState'.runAttempts = battleState.runAttempts + 1
        ELSE /\ ~last'.r.success
             /\ battleState'.active
             /\ battleState'.runAttempts = battleState.runAttempts]_vars

\* a second run attempt of a wild battle failed and was counted
C14_Witness ==
    /\ ExecReturned
    /\ last.wasActive
    /\ last.type = "run"
    /\ battleState.battleType = "wild"
    /\ last.r.success
    /\ ~last.r.battleEnded
    /\ battleState.runAttempts = 2

\* C15: run attempt number n of a wild battle with draw r in 0..255 escapes
\* (the battle ends with result escaped) if and only if
\* r < floor(playerSpeed * 128 / enemySpeed + 30 * n); for equal speeds of 50
\* and n = 1 the threshold is 158.
C15_EscapeIffDrawBelowChance ==
    [][(RunStep /\ battleState.battleType = "wild") =>
        LET n == battleState.runAttempts + 1
            playerSpeed ==
                battleState.playerTeam[battleState.activePlayerMonster].stats.speed
            enemySpeed ==
                battleState.enemyTeam[battleState.activeEnemyMonster].stats.speed
            threshold == (playerSpeed * 128 + 30 * n * enemySpeed) \div enemySpeed
            escaped == /\ last'.r.success
                       /\ last'.r.battleEnded
                       /\ last'.r.battleResult.escaped
                       /\ battleState'.result.escaped
                       /\ ~battleState'.active
        IN  /\ escaped <=> last'.runDraw < threshold
            /\ ~escaped => (~last'.r.battleEnded /\ ~battleState'.result.escaped)
            /\ escapeChance(50, 50, 1) = 158
            /\ (playerSpeed = enemySpeed /\ n = 1) => threshold = 158]_vars

\* the first attempt at equal speeds escaped with the draw 157
C15_Witness ==
    /\ ExecReturned
    /\ last.wasActive
    /\ last.type = "run"
    /\ last.runDraw = 157
    /\ battleState.runAttempts = 1
    /\ battleState.result.escaped
    /\ ~battleState.active
    /\ battleState.playerTeam[battleState.activePlayerMonster].stats.speed =
          battleState.enemyTeam[battleState.activeEnemyMonster].stats.speed

\* the last call was an item action with a capture-type item in a session
\* that was active
BallUsed ==
    /\ ExecReturned
    /\ last.wasActive
    /\ last.type = "item"
    /\ last.action.itemId \in ItemIds
    /\ ItemData(last.action.itemId).type = "ball"

\* C16: a capture-type item in a trainer battle returns success:false without
\* invoking attemptCatch; in a wild battle a successful catch ends the battle
\* (session inactive, winner 'player', caught) with no enemy action after it,
\* and a failed catch leaves the battle going and is followed by the enemy
\* action.
C16_CatchOnlyInWildBattles ==
    BallUsed =>
      /\ battleState.battleType # "wild" =>
            /\ ~last.r.success
            /\ last.r.catchHp = -1
            /\ ~last.enemyAction.called
            /\ battleState.active
      /\ (battleState.battleType = "wild" /\ last.r.catchHp # -1) =>
            IF last.r.battleResult.caught
            THEN /\ last.r.success
                 /\ last.r.battleEnded
                 /\ ~battleState.active
                 /\ battleState.result.winner = "player"
                 /\ battleState.result.caught
                 /\ ~last.enemyAction.called
                 /\ ~last.newTurn
            ELSE /\ last.r.success
                 /\ ~last.r.battleEnded
                 /\ last.enemyAction.called
                 /\ battleState.active \/ battleState.result.winner = "enemy"
                 /\ ~battleState.result.caught

\* a wild monster was caught
C16_Witness ==
    /\ BallUsed
    /\ battleState.battleType = "wild"
    /\ last.r.battleResult.caught
    /\ battleState.result.caught
    /\ ~battleState.active

\* C17: an instance holds at most one status: applyStatus returns true and
\* sets the status only when the instance has none, returns false and leaves
\* the status when it has one; clearStatus returns the previous status and
\* leaves the instance with none.
C17_StatusDoesNotStack ==
    [][/\ last'.op = "applyStatus" =>
            IF Subject.status = "none"
            THEN /\ last'.call.applied
                 /\ Subject' = [Subject EXCEPT !.status = last'.call.status]
            ELSE /\ ~last'.call.applied
                 /\ Subject' = Subject
       /\ last'.op = "clearStatus" =>
            /\ last'.call.previous = Subject.status
            /\ Subject' = [Subject EXCEPT !.status = "none"]]_vars

\* a burned instance was asked to take poison and kept its burn
C17_Witness ==
    /\ last.op = "applyStatus"
    /\ last.call.status = "poison"
    /\ ~last.call.applied
    /\ Subject.status = "burn"

\* C18: applyDamage with a non-negative amount leaves
\* currentHp = max(0, previous - amount) and reports fainted exactly when the
\* resulting currentHp is 0; a heal with the amount omitted sets currentHp to
\* exactly stats.hp, also after any damage, and a heal with an amount never
\* raises currentHp above stats.hp.
C18_DamageClampsHealCaps ==
    [][/\ last'.op = "applyDamage" =>
            /\ Subject'.currentHp =
                  (IF Subject.currentHp - last'.call.amount < 0 THEN 0
                   ELSE Subject.currentHp - last'.call.amount)
            /\ last'.call.fainted <=> (Subject'.currentHp = 0)
            /\ last'.call.previousHp = Subject.currentHp
            /\ last'.call.currentHp = Subject'.currentHp
            /\ Subject' = [Subject EXCEPT !.currentHp = Subject'.currentHp]
       /\ last'.op = "healMonster" =>
            /\ last'.call.amount = -1 => Subject'.currentHp = Subject.stats.hp
            /\ Subject'.currentHp <= Subject.stats.hp
            /\ Subject'.currentHp >= Subject.currentHp
            /\ last'.call.healAmount = Subject'.currentHp - Subject.currentHp
            /\ Subject' = [Subject EXCEPT !.currentHp = Subject'.currentHp]]_vars

\* an instance that damage had taken to 0 HP was fully healed
C18_Witness ==
    /\ last.op = "healMonster"
    /\ last.call.amount = -1
    /\ last.call.previousHp = 0
    /\ Subject.currentHp = Subject.stats.hp
    /\ calls = 2

\* C19: an instance whose currentHp is 0 gets currentHp > 0 again only through
\* an explicit heal: no other operation (awardExperience with level-ups,
\* status calls, damage) raises the HP of a fainted instance.
C19_OnlyHealRevives ==
    [][(Subject.currentHp = 0 /\ Subject'.currentHp > 0)
          => last'.op = "healMonster"]_vars

\* C20: for every instance with level in 1..100 and every non-negative
\* amount, awardExperience leaves level >= the initial level and
\* level <= MAX_MONSTER_LEVEL, reports levelsGained = final level - initial
\* level, and afterwards nextLevelExperience > experience unless level equals
\* MAX_MONSTER_LEVEL.
C20_AwardMonotonicAndCapped ==
    [][last'.op = "awardExperience" =>
          /\ Subject.level \in 1..MAX_MONSTER_LEVEL
          /\ last'.award.amount >= 0
          /\ Subject'.level >= Subject.level
          /\ Subject'.level <= MAX_MONSTER_LEVEL
          /\ last'.award.levelsGained = Subject'.level - Subject.level
          /\ last'.award.leveledUp <=> (Subject'.level > Subject.level)
          /\ Subject'.experience = Subject.experience + last'.award.amount
          /\ Subject'.level # MAX_MONSTER_LEVEL
                => Subject'.nextLevelExperience > Subject'.experience]_vars

\* an award took an instance up to the level cap
C20_Witness ==
    /\ last.op = "awardExperience"
    /\ last.award.levelsGained >= 1
    /\ Subject.level = MAX_MONSTER_LEVEL

\* C21: awardExperience reports canEvolve with the target species id
\* whenever, after its level-up loop, the species has a level-based evolution
\* rule and the level of the instance is at least the threshold of the rule,
\* also in a call that gained no level.
C21_CanEvolveAtThreshold ==
    (last.op = "awardExperience"
       /\ MonsterData(Subject.id).evolution.evolvesTo # "none"
       /\ MonsterData(Subject.id).evolution.level # 0
       /\ Subject.level >= MonsterData(Subject.id).evolution.level)
      => (last.award.canEvolve
            /\ last.award.evolutionId = MonsterData(Subject.id).evolution.evolvesTo)

\* the instance the last evolveMonster call returned
EvolvedInstance == last.call.evolved[1]

\* C22: for a species with an evolution target, evolveMonster returns a new
\* instance of the target species with the level, IVs, EVs, experience and
\* nextLevelExperience of the original and with
\* currentHp = floor(newMaxHp * oldCurrentHp / oldMaxHp), which lies in
\* 0..newMaxHp; the original instance is not changed.
C22_EvolveCarriesProgressAndHpRatio ==
    [][(last'.op = "evolveMonster" /\ EvolutionTarget(Subject) # "none") =>
          /\ ~last'.call.same
          /\ EvolvedInstance'.id = MonsterData(Subject.id).evolution.evolvesTo
          /\ EvolvedInstance'.level = Subject.level
          /\ EvolvedInstance'.ivs = Subject.ivs
          /\ EvolvedInstance'.evs = Subject.evs
          /\ EvolvedInstance'.experience = Subject.experience
          /\ EvolvedInstance'.nextLevelExperience = Subject.nextLevelExperience
          /\ EvolvedInstance'.currentHp =
                (EvolvedInstance'.stats.hp * Subject.currentHp)
                   \div Subject.stats.hp
          /\ EvolvedInstance'.currentHp >= 0
          /\ EvolvedInstance'.currentHp <= EvolvedInstance'.stats.hp
          /\ Subject' = Subject]_vars

\* C23: evolveMonster on an instance whose species has no evolution target,
\* or whose target species has no record, returns the very same instance
\* with every field unchanged.
C23_NoTargetReturnsArgument ==
    [][(last'.op = "evolveMonster"
          /\ (\/ MonsterData(Subject.id).evolution.evolvesTo = "none"
              \/ MonsterData(Subject.id).evolution.evolvesTo \notin MonsterIds)) =>
          /\ last'.call.same
          /\ EvolvedInstance' = Subject
          /\ Subject' = Subject]_vars

\* a damaged instance of a species whose target has no record was handed
\* back by evolveMonster
C23_Witness ==
    /\ last.op = "evolveMonster"
    /\ last.call.same
    /\ Subject.id = "monster-008"
    /\ Subject.currentHp < Subject.stats.hp
    /\ EvolvedInstance = Subject

\* C24: calculateCatchProbability returns a value in [0,1]; with the other
\* parameters fixed it is non-increasing in currentHp and non-decreasing in
\* ballBonus (over all non-negative values, 0 included) and in statusBonus.
C24_CatchProbabilityMonotone ==
    last.op = "calculateCatchProbability" =>
       /\ 0 <= last.fn.result.x.num
       /\ last.fn.result.x.num <= last.fn.result.x.den
       /\ (/\ last.fn.args.x.monster.currentHp >= last.fn.args.y.monster.currentHp
           /\ last.fn.args.x.ballBonus <= last.fn.args.y.ballBonus
           /\ last.fn.args.x.statusBonus => last.fn.args.y.statusBonus)
          => (/\ last.fn.result.x.den = last.fn.result.y.den
              /\ last.fn.result.x.num <= last.fn.result.y.num)

\* C25: the type-effectiveness lookup never fails: for every pair of the 15
\* defined types it returns the table entry, which is one of 0, 0.5, 1 or 2
\* (0, 1, 2, 4 doubled), and for every pair in which the attacking or the
\* defending type is absent from the table it returns exactly 1 (2 doubled).
C25_TypeLookupTotal ==
    last.op = "_calculateTypeEffectiveness" =>
       IF IsType(last.fn.args.attackType) /\ IsType(last.fn.args.defenderType)
       THEN /\ last.fn.result =
                  _typeChart[last.fn.args.attackType]
                            [TypeIndex(last.fn.args.defenderType)]
            /\ last.fn.result \in {0, 1, 2, 4}
       ELSE last.fn.result = 2

\* C26: for non-negative base stats, level in 1..100, IVs in 0..31 and EVs in
\* 0..255 the derived HP is
\* floor((2*base + iv + floor(ev/4)) * level / 100) + level + 10 and at least
\* level + 10, and every other derived stat is at least 5; for level 5, base
\* HP 45, IV 10 and EV 0 the derived HP is 20.
C26_DerivedStats ==
    last.op = "_calculateStats" =>
       /\ last.fn.result.hp =
             ((2 * last.fn.args.baseStats.hp + last.fn.args.ivs.hp
                 + (last.fn.args.evs.hp \div 4)) * last.fn.args.level) \div 100
               + last.fn.args.level + 10
       /\ last.fn.result.hp >= last.fn.args.level + 10
       /\ \A s \in StatNames \ {"hp"} : last.fn.result[s] >= 5
       /\ (/\ last.fn.args.level = 5
           /\ last.fn.args.baseStats.hp = 45
           /\ last.fn.args.ivs.hp = 10
           /\ last.fn.args.evs.hp = 0) => last.fn.result.hp = 20

\* the stats of the level 5, base HP 45, IV 10, EV 0 example were derived
C26_Witness ==
    /\ last.op = "_calculateStats"
    /\ last.fn.args.level = 5
    /\ last.fn.args.baseStats.hp = 45
    /\ last.fn.args.ivs.hp = 10
    /\ last.fn.args.evs.hp = 0
    /\ last.fn.result.hp = 20

\* C27: the experience threshold is 0 for every level <= 0 and, for each
\* growth rate (fast floor(0.8 * level^3), medium and unknown floor(level^3),
\* slow floor(1.25 * level^3)), strictly increasing in level from level 1 on.
C27_ThresholdIncreasing ==
    last.op = "_getLevelExperience" =>
       IF last.fn.args.level <= 0
       THEN last.fn.result.x = 0
       ELSE /\ last.fn.result.x < last.fn.result.y
            /\ last.fn.result.x =
                  ((IF last.fn.args.growthRate = "fast" THEN 80
                    ELSE IF last.fn.args.growthRate = "slow" THEN 125
                    ELSE 100)
                     * last.fn.args.level * last.fn.args.level
                     * last.fn.args.level) \div 100

\* the closest pair: a fast species has threshold 0 at level 1 and 6 at level 2
C27_Witness ==
    /\ last.op = "_getLevelExperience"
    /\ last.fn.args.level = 1
    /\ last.fn.args.growthRate = "fast"
    /\ last.fn.result.x = 0
    /\ last.fn.result.y = 6

\* the instance the last createMonster call returned
CreatedInstance == last.call.created[1]

\* the level at which the species of data unlocks ability
UnlockLevel(data, ability) ==
    data.abilityLevels[CHOOSE i \in 1..Len(data.abilityLevels) :
                          data.abilityLevels[i][1] = ability][2]

\* abilities is the list createMonster gives an instance of data at level:
\* species abilities unlocked at or below the level, no ability twice, in
\* ascending order of unlock level, as many as are unlocked but at most 4,
\* and none left out that unlocks later than one that is listed
AbilitiesForLevel(abilities, data, level) ==
    /\ \A i \in 1..Len(abilities) :
          /\ \E k \in 1..Len(data.abilityLevels) :
                data.abilityLevels[k][1] = abilities[i]
          /\ UnlockLevel(data, abilities[i]) <= level
    /\ \A i, k \in 1..Len(abilities) : i # k => abilities[i] # abilities[k]
    /\ \A i \in 1..(Len(abilities) - 1) :
          UnlockLevel(data, abilities[i]) <= UnlockLevel(data, abilities[i + 1])
    /\ Len(abilities) =
          Min(4, Cardinality({k \in 1..Len(data.abilityLevels) :
                                 data.abilityLevels[k][2] <= level}))
    /\ \A k \in 1..Len(data.abilityLevels) :
          (data.abilityLevels[k][2] <= level
             /\ ~Has(abilities, data.abilityLevels[k][1]))
            => \A i \in 1..Len(abilities) :
                  data.abilityLevels[k][2] <= UnlockLevel(data, abilities[i])

\* C28: createMonster without explicit abilities gives the instance the
\* species abilities whose unlock level is <= the requested level, in
\* ascending order of unlock level and cut to the last 4, and sets currentHp
\* to the derived max HP; the ability list of an instance never exceeds 4
\* entries after any sequence of calls.
C28_AbilitiesForLevelAtMostFour ==
    [][/\ Len(Subject'.abilities) <= 4
       /\ (last'.op = "createMonster" /\ last'.call.monsterId \in MonsterIds) =>
            /\ Len(last'.call.created) = 1
            /\ CreatedInstance'.id = last'.call.monsterId
            /\ CreatedInstance'.level =
                  (IF last'.call.level = 0 THEN 1 ELSE last'.call.level)
            /\ AbilitiesForLevel(CreatedInstance'.abilities,
                                 MonsterData(last'.call.monsterId),
                                 CreatedInstance'.level)
            /\ Len(CreatedInstance'.abilities) <= 4
            /\ CreatedInstance'.currentHp = CreatedInstance'.stats.hp
            /\ CreatedInstance'.stats =
                  _calculateStats(MonsterData(last'.call.monsterId).baseStats,
                                  CreatedInstance'.level, IVLow, _generateEVs)]_vars

\* a level 20 instance of the species with five abilities was created with
\* the four that unlock last
C28_Witness ==
    /\ last.op = "createMonster"
    /\ last.call.monsterId = "monster-001"
    /\ last.call.level = 20
    /\ CreatedInstance.abilities = <<"scratch", "growl", "fire-fang", "flamethrower">>
    /\ CreatedInstance.currentHp = CreatedInstance.stats.hp

\* C29: createMonster with a species id that has no reference record
\* produces no instance and returns a value (null) that differs from every
\* created instance; no existing instance is touched.
C29_UnknownSpeciesNoInstance ==
    [][last'.op = "createMonster" =>
          /\ last'.call.monsterId \notin MonsterIds => last'.call.created = << >>
          /\ last'.call.monsterId \in MonsterIds => last'.call.created # << >>
          /\ Subject' = Subject]_vars

\* createMonster was called for a species without a record and returned null
C29_Witness ==
    /\ last.op = "createMonster"
    /\ last.call.monsterId = "monster-999"
    /\ last.call.created = << >>

\* what upkeep leaves of hpBefore for the monster at position i of a team
\* whose active position is active
AfterUpkeep(monster, i, active, hpBefore) ==
    IF i = active /\ monster.status \in {"burn", "poison"}
    THEN (IF hpBefore - (IF monster.stats.hp \div 8 < 1 THEN 1
                         ELSE monster.stats.hp \div 8) < 0
          THEN 0
          ELSE hpBefore - (IF monster.stats.hp \div 8 < 1 THEN 1
                           ELSE monster.stats.hp \div 8))
    ELSE hpBefore

\* C30: at the start of each new turn each of the two active monsters that
\* carries burn or poison loses exactly max(1, floor(maxHp / 8)) HP, clamped
\* at 0, independently of the other; active monsters without those statuses
\* and all benched team members lose no HP from upkeep.
C30_UpkeepDamage ==
    (ExecReturned /\ last.newTurn) =>
       /\ \A i \in 1..Len(battleState.playerTeam) :
             battleState.playerTeam[i].currentHp =
                AfterUpkeep(battleState.playerTeam[i], i,
                            battleState.activePlayerMonster,
                            last.beforeTurn.player[i])
       /\ \A i \in 1..Len(battleState.enemyTeam) :
             battleState.enemyTeam[i].currentHp =
                AfterUpkeep(battleState.enemyTeam[i], i,
                            battleState.activeEnemyMonster,
                            last.beforeTurn.enemy[i])

\* a new turn ticked a poisoned active player monster and a burned active
\* enemy monster, with an unhurt member on the player's bench
C30_Witness ==
    /\ ExecReturned
    /\ last.newTurn
    /\ battleState.activePlayerMonster = 1
    /\ battleState.activeEnemyMonster = 1
    /\ Len(battleState.playerTeam) = 2
    /\ battleState.playerTeam[1].status = "poison"
    /\ battleState.enemyTeam[1].status = "burn"
    /\ battleState.playerTeam[1].currentHp = last.beforeTurn.player[1] - 1
    /\ battleState.enemyTeam[1].currentHp = last.beforeTurn.enemy[1] - 1
    /\ battleState.playerTeam[2].currentHp = last.beforeTurn.player[2]
    /\ battleState.playerTeam[2].currentHp > 0


\* C31: an ability whose accuracy roll fails returns success with hit false
\* and leaves the whole session as it was: no HP, no status and no experience
\* of either monster changes and no effect is applied
C31_MissChangesNothing ==
    [][(/\ last'.op = "_executeAbility"
        /\ ~(last.fn.args.accuracyRoll
               <= AbilityData(last.fn.args.abilityId).accuracy))
       => /\ last'.r.success
          /\ ~last'.r.hit
          /\ last'.r.damage = 0
          /\ ~last'.r.fainted
          /\ last'.r.expAwarded = -1
          /\ battleState' = battleState]_vars

\* scald misses on the roll 96 although both of its effect rolls would pass
C31_Witness ==
    /\ last.op = "_executeAbility"
    /\ last.fn.args.abilityId = "scald"
    /\ last.fn.args.accuracyRoll = 96
    /\ last.fn.args.rolls = <<0, 0>>
    /\ last.r.success
    /\ ~last.r.hit
    /\ Has(last.r.events, last.fn.args.team \o ":miss")
    /\ battleState.playerTeam[1].currentHp = 1
    /\ battleState.enemyTeam[1].status = "none"


\* C32: every effect of a hitting ability is applied exactly when its own
\* draw is at most its chance, whatever the draws of the other effects; an
\* effect of chance 0 is not applied for a draw above 0
C32_EffectGatedByOwnRoll ==
    [][
    LET effects == AbilityData(last.fn.args.abilityId).effects
        user == TeamOf(battleState, last.fn.args.team)[1]
        target == TeamOf(battleState, Opponent(last.fn.args.team))[1]
        \* the effect shows in the state: the status it names on a target
        \* that had none, or HP restored to a user that missed some and
        \* gained no experience in the same resolution
        Visible(i) ==
            \/ effects[i].type = "status" /\ target.status = "none"
            \/ /\ effects[i].type = "healing"
               /\ effects[i].target = "user"
               /\ last'.r.expAwarded = -1
               /\ user.currentHp < user.stats.hp
        Applied(i) ==
            IF effects[i].type = "status"
            THEN TeamOf(battleState', Opponent(last.fn.args.team))[1].status
                   = effects[i].status
            ELSE TeamOf(battleState', last.fn.args.team)[1].currentHp
                   > user.currentHp
    IN  ((last'.op = "_executeAbility" /\ last'.r.hit)
           => \A i \in 1..Len(effects) :
                 Visible(i)
                    => (Applied(i)
                          <=> last.fn.args.rolls[i] <= effects[i].chance))
    ]_vars


\* C33: no operation on existing instances (player actions with the enemy
\* action and the upkeep that follow, awardExperience, applyDamage,
\* healMonster, applyStatus, clearStatus) changes their individual values,
\* and the instance evolveMonster returns has those of the original
C33_IvsNeverChange ==
    [][last'.op # "startBattle"
       => /\ Len(battleState'.playerTeam) = Len(battleState.playerTeam)
          /\ Len(battleState'.enemyTeam) = Len(battleState.enemyTeam)
          /\ \A i \in 1..Len(battleState.playerTeam) :
                battleState'.playerTeam[i].ivs = battleState.playerTeam[i].ivs
          /\ \A i \in 1..Len(battleState.enemyTeam) :
                battleState'.enemyTeam[i].ivs = battleState.enemyTeam[i].ivs
          /\ (last'.op = "evolveMonster" /\ last'.call.evolved # << >>)
                => last'.call.evolved[1].ivs = battleState.playerTeam[1].ivs]_vars

\* a party member evolved after a battle in which it was hit
C33_Witness ==
    /\ last.op = "evolveMonster"
    /\ last.award.index = 1
    /\ battleState.playerTeam[1].id = "monster-002"
    /\ battleState.playerTeam[1].ivs = IVLow
    /\ battleState.playerTeam[1].currentHp < battleState.playerTeam[1].stats.hp
    /\ battleState.turn > 0


\* C34: startBattle leaves an active session at turn 0 without weather, field
\* condition or run attempts, whatever the session before; the active
\* monster of a side is the first member of its team, none for an empty or
\* absent team, and a single enemy instance becomes a team of one
C34_StartBattleSession ==
    [][(Pending("startBattle") /\ last'.op = "startBattle")
       => /\ battleState'.active
          /\ battleState'.turn = 0
          /\ battleState'.weather = "none"
          /\ battleState'.field = "none"
          /\ battleState'.runAttempts = 0
          /\ battleState'.activePlayerMonster
                = (IF battleState'.playerTeam = << >> THEN 0 ELSE 1)
          /\ battleState'.activeEnemyMonster
                = (IF battleState'.enemyTeam = << >> THEN 0 ELSE 1)
          /\ last.fn.args.playerTeam.kind = "array"
                => battleState'.playerTeam = last.fn.args.playerTeam.value
          /\ last.fn.args.enemyTeam.kind = "array"
                => battleState'.enemyTeam = last.fn.args.enemyTeam.value
          /\ last.fn.args.enemyTeam.kind = "instance"
                => battleState'.enemyTeam = << last.fn.args.enemyTeam.value >>
          /\ last.fn.args.playerTeam.kind = "absent"
                => battleState'.playerTeam = << >>
          /\ last.fn.args.enemyTeam.kind = "absent"
                => battleState'.enemyTeam = << >>]_vars

\* a battle started with an empty party against a single instance, after a
\* battle with three run attempts
C34_Witness ==
    /\ last.op = "startBattle"
    /\ last.fn.args.runAttemptsBefore = 3
    /\ last.fn.args.playerTeam = ArrayOption(<< >>)
    /\ last.fn.args.enemyTeam = InstanceOption(Ghost1)
    /\ battleState.active
    /\ battleState.activePlayerMonster = 0
    /\ battleState.activeEnemyMonster = 1
    /\ battleState.enemyTeam = <<Ghost1>>
    /\ battleState.runAttempts = 0


\* C35: a hitting ability of category status, or one whose type has the
\* multiplier 0 against the target, has damage 0 and does not reach
\* applyDamage: the target loses no HP and does not faint; ember (fire,
\* special, power 40) of a level-10 fire user with special attack 70 on a
\* grass target with special defense 50 deals 26 at the random factor 1.0
C35_NoDamageStep ==
    [][
    LET ability == AbilityData(last.fn.args.abilityId)
        user == TeamOf(battleState, last.fn.args.team)[1]
        target == TeamOf(battleState, Opponent(last.fn.args.team))[1]
    IN  ((last'.op = "_executeAbility" /\ last'.r.hit)
           => /\ (\/ ability.category = "status"
                   \/ _calculateTypeEffectiveness(ability.type, target.type) = 0)
                    => /\ last'.r.damage = 0
                       /\ ~last'.r.fainted
                       /\ ~Has(last'.r.events, last.fn.args.team \o ":damage")
                       /\ TeamOf(battleState',
                                 Opponent(last.fn.args.team))[1].currentHp
                             >= target.currentHp
              /\ (/\ user = ExampleUser
                   /\ target = ExampleTarget
                   /\ last.fn.args.abilityId = "ember"
                   /\ last.fn.args.random = 1000)
                    => last'.r.damage = 26)
    ]_vars

\* scratch, a normal ability, hit a ghost that had 1 HP left
C35_Witness ==
    /\ last.op = "_executeAbility"
    /\ last.fn.args.team = "player"
    /\ last.fn.args.abilityId = "scratch"
    /\ last.r.hit
    /\ last.r.damage = 0
    /\ battleState.enemyTeam[1].id = "monster-010"
    /\ battleState.enemyTeam[1].currentHp = 1
    /\ battleState.active


\* C36: a call of executePlayerAction that returns success false leaves the
\* session as it was (active flag, turn, run attempts, active monsters and
\* every monster of both teams); no enemy action is resolved and no new turn
\* is started
C36_FailureChangesNothing ==
    [][(/\ last'.op = "executePlayerAction"
        /\ ~last'.r.success
        /\ ~Has(last'.r.events, "TypeError"))
       => /\ battleState' = battleState
          /\ ~last'.enemyAction.called
          /\ last'.enemyAction.r = NoAbilityResult
          /\ ~last'.newTurn]_vars

\* a run refused in a trainer battle that is in its second turn
C36_Witness ==
    /\ last.op = "executePlayerAction"
    /\ last.type = "run"
    /\ ~last.r.success
    /\ last.wasActive
    /\ battleState.active
    /\ battleState.battleType = "trainer"
    /\ battleState.turn = 1
    /\ battleState.runAttempts = 0
    /\ ~last.enemyAction.called


\* C37: in an active wild battle the run attempt made after eight or more
\* earlier attempts escapes for every draw: the battle ends with the result
\* escaped
C37_NinthRunEscapes ==
    [][(/\ Pending("_attemptRun")
        /\ last'.op = "_attemptRun"
        /\ battleState.active
        /\ battleState.battleType = "wild"
        /\ battleState.runAttempts >= 8)
       => /\ last'.r.success
          /\ last'.r.battleEnded
          /\ last'.r.battleResult.escaped
          /\ ~battleState'.active
          /\ battleState'.result.escaped]_vars

\* the ninth attempt against the level-100 enemy escaped on the draw 255
C37_Witness ==
    /\ last.op = "_attemptRun"
    /\ last.fn.args.randomValue = 255
    /\ battleState.runAttempts = 9
    /\ battleState.enemyTeam[1] = GhostFast
    /\ battleState.battleType = "wild"
    /\ ~battleState.active
    /\ battleState.result.escaped


\* C38: the instance evolveMonster returns for a monster that has HP left
\* has HP left, whatever the max HP of the two forms
C38_EvolveKeepsAlive ==
    (/\ last.op = "evolveMonster"
     /\ last.fn.name = "evolveMonster"
     /\ last.fn.args.monster.currentHp > 0)
    => last.fn.result.currentHp > 0


\* C39: when a hitting ability has been resolved, the faint it reports is
\* the state of its target: fainted exactly when the target is left with 0
\* HP, also when an effect of the ability heals the target; a battle result
\* (win or needSwitch) is declared only for a target left with 0 HP
C39_ReportedFaintIsState ==
    [][(last'.op = "_executeAbility" /\ last'.r.hit)
       => /\ last'.r.fainted
                <=> TeamOf(battleState', Opponent(last.fn.args.team))[1].currentHp = 0
          /\ (last'.r.battleEnded \/ last'.r.battleResult.needSwitch)
                => TeamOf(battleState', Opponent(last.fn.args.team))[1].currentHp = 0]_vars

=============================================================================
